---------------------------- MODULE Spec2Model ----------------------------
(***************************************************************************)
(* The simulation core of pixel-postman-game: city generation (initGame),  *)
(* the per-frame tick (update) and the animation-frame driver (loop) of    *)
(* src/components/GameLoop.tsx, and the scoring step of the earlier        *)
(* GameLoop variant (src/unnamed/part_000).                                *)
(*                                                                         *)
(* Representation.  Lengths are integers in units of 1/Q pixel, so that    *)
(* the car's half speed (1.75 px) is exact.  Times are integers in         *)
(* milliseconds.  Math.random() draws, frame gaps and the player's input   *)
(* are parameters of the actions, drawn from small sets.  Cosmetic         *)
(* entities (particles, text popups, projectiles, camera, colours) carry   *)
(* no gameplay state and are left out.                                     *)
(***************************************************************************)
EXTENDS Integers, Sequences, FiniteSets, TLC

VARIABLES
    s,                 \* state.current: the GameState aggregate
    gameOverReason,    \* gameOverReasonRef.current
    gameOverSent,      \* gameOverSentRef.current
    prevDash,          \* prevDashRef.current
    isPaused,          \* the isPaused prop
    now,               \* performance.now(), ms
    lastTime,          \* lastTimeRef.current, ms
    rafPending,        \* a requestAnimationFrame(loop) callback is scheduled
    hung,              \* update never returned: a loop that cannot exit, or a throw
    snapshot,          \* the arguments of the latest onScoreUpdate call
    gameOverCalls,     \* the onGameOver calls made so far, with their reasons
    frames,            \* loop callbacks run so far
    v1,                \* round bookkeeping of the earlier GameLoop variant
    probe              \* a direct call of a pure function: name, arguments, result

vars == <<s, gameOverReason, gameOverSent, prevDash, isPaused, now, lastTime,
          rafPending, hung, snapshot, gameOverCalls, frames, v1, probe>>

---------------------------------------------------------------------------
(* Units and program constants *)

Q == 2 * 2                   \* position units per pixel
MS == 1000                   \* milliseconds per second (loop divides by 1000)

TILE_SIZE == 32
MAP_WIDTH == 16              \* the program's 50, scaled down
MAP_HEIGHT == 28             \* the program's 30, scaled down
INITIAL_TIME == 150
PLAYER_SPEED == 4
BOOST_SPEED == 8
MAX_BOOST_CHARGE == 4

TILE == TILE_SIZE * Q
MAP_PIXEL_WIDTH == MAP_WIDTH * TILE_SIZE
MAP_PIXEL_HEIGHT == MAP_HEIGHT * TILE_SIZE
CAR_SPEED == (7 * Q) \div 2  \* 3.5 px per tick, in position units

Px(n) == n * Q
Vec(x, y) == [x |-> x, y |-> y]
Abs(n) == IF n < 0 THEN -n ELSE n
Min(a, b) == IF a <= b THEN a ELSE b
Max(a, b) == IF a >= b THEN a ELSE b

Cols == 0 .. (MAP_WIDTH - 1)
Rows == 0 .. (MAP_HEIGHT - 1)
InMap(tx, ty) == tx >= 0 /\ tx < MAP_WIDTH /\ ty >= 0 /\ ty < MAP_HEIGHT

---------------------------------------------------------------------------
(* Geometry helpers *)

\* checkCollision: strict AABB overlap of two {pos, size} boxes
checkCollision(rect1, rect2) ==
    /\ rect1.pos.x < rect2.pos.x + rect2.size.x
    /\ rect1.pos.x + rect1.size.x > rect2.pos.x
    /\ rect1.pos.y < rect2.pos.y + rect2.size.y
    /\ rect1.pos.y + rect1.size.y > rect2.pos.y

\* getDistance(p1, p2) < d, compared on the squares
DistanceLess(p1, p2, d) ==
    (p2.x - p1.x) * (p2.x - p1.x) + (p2.y - p1.y) * (p2.y - p1.y) < d * d

\* the four corner points isWalkable tests: pos and pos + size - 1 px
Corners(pos, size) ==
    { Vec(pos.x, pos.y),
      Vec(pos.x + size.x - Px(1), pos.y),
      Vec(pos.x, pos.y + size.y - Px(1)),
      Vec(pos.x + size.x - Px(1), pos.y + size.y - Px(1)) }

OnRoad(pt, map) ==
    LET tx == pt.x \div TILE
        ty == pt.y \div TILE
    IN  InMap(tx, ty) /\ map[ty][tx] = "ROAD"

isWalkable(pos, size, map) == \A pt \in Corners(pos, size) : OnRoad(pt, map)

---------------------------------------------------------------------------
(* initGame: city generation.  g is the record of the Math.random()        *)
(* draws: g.vGaps, g.hGaps (road gaps, each 0..4), g.skip (lot origins     *)
(* whose placement roll fails), g.rect (lot origins drawn 'rect'),         *)
(* g.trees (tiles whose tree rolls pass), g.target, g.puddles, g.cars.     *)
(* Pools and patios only repaint GARDEN tiles and are left out.            *)

SetTiles(map, S, kind) ==
    [y \in Rows |-> [x \in Cols |-> IF <<x, y>> \in S THEN kind ELSE map[y][x]]]

\* addLines: push last + gap while it stays minGap short of max, then sort
RECURSIVE AddLinesFrom(_, _, _, _, _, _)
AddLinesFrom(arr, last, max, minGap, gaps, i) ==
    LET next == last + minGap + gaps[i]
    IN  IF i > Len(gaps) \/ next >= max - minGap
        THEN arr
        ELSE AddLinesFrom(Append(arr, next), next, max, minGap, gaps, i + 1)

addLines(arr, max, minGap, gaps) ==
    SortSeq(AddLinesFrom(arr, arr[1], max, minGap, gaps, 1),
            LAMBDA a, b : a < b)

GenVRoads(g) == addLines(<<2, MAP_WIDTH - 4>>, MAP_WIDTH - 4, 10, g.vGaps)
GenHRoads(g) == addLines(<<2, MAP_HEIGHT - 4>>, MAP_HEIGHT - 4, 10, g.hGaps)

SeqHas(seq, v) == \E i \in 1 .. Len(seq) : seq[i] = v

\* "Rasterize Roads": every band is 2 tiles wide and spans the whole map
RasterizeRoads(vRoads, hRoads) ==
    [y \in Rows |-> [x \in Cols |->
        IF \/ SeqHas(vRoads, x) \/ SeqHas(vRoads, x - 1)
           \/ SeqHas(hRoads, y) \/ SeqHas(hRoads, y - 1)
        THEN "ROAD" ELSE "GRASS"]]

hasAdjacentRoad(map, tx, ty) ==
    \E d \in {<<0, 1>>, <<0, -1>>, <<1, 0>>, <<-1, 0>>} :
        /\ InMap(tx + d[1], ty + d[2])
        /\ map[ty + d[2]][tx + d[1]] = "ROAD"

\* "IDENTIFY PARK ZONE": the blocks between consecutive bands, in push order
Blocks(vRoads, hRoads) ==
    LET nv == Len(vRoads) - 1
        nh == Len(hRoads) - 1
        all == [k \in 1 .. (nv * nh) |->
                  LET i == ((k - 1) \div nh) + 1
                      j == ((k - 1) % nh) + 1
                  IN  [x |-> vRoads[i] + 2, y |-> hRoads[j] + 2,
                       w |-> vRoads[i + 1] - vRoads[i] - 2,
                       h |-> hRoads[j + 1] - hRoads[j] - 2]]
    IN  SelectSeq(all, LAMBDA b : b.w >= 4 /\ b.h >= 4)

\* the sort key size - 2 * centre distance; the halves cancel
BlockScore(b) ==
    b.w * b.h - Abs(2 * b.x + b.w - MAP_WIDTH) - Abs(2 * b.y + b.h - MAP_HEIGHT)

\* blocks[0] after the (stable) sort: the first block of greatest score
BestBlock(bs) ==
    IF Len(bs) = 0 THEN [x |-> 0, y |-> 0, w |-> 0, h |-> 0]
    ELSE bs[CHOOSE i \in 1 .. Len(bs) :
               /\ \A k \in 1 .. Len(bs) : BlockScore(bs[k]) <= BlockScore(bs[i])
               /\ \A k \in 1 .. (i - 1) : BlockScore(bs[k]) < BlockScore(bs[i])]

ParkBlock(vRoads, hRoads) == BestBlock(Blocks(vRoads, hRoads))

InBlock(b, x, y, margin) ==
    /\ x >= b.x - margin /\ x < b.x + b.w + margin
    /\ y >= b.y - margin /\ y < b.y + b.h + margin

W_TILES == 4                 \* wTiles: lot width
H_TILES == 3                 \* hTiles: lot depth

\* the facing of a lot whose origin is (x, y): road right above, else right below
LotFacing(map, x, y) ==
    IF y > 0 /\ map[y - 1][x] = "ROAD" THEN "up"
    ELSE IF y + H_TILES < MAP_HEIGHT /\ map[y + H_TILES][x] = "ROAD" THEN "down"
    ELSE "none"

\* a faulty test that looks at the map's edge only
LotClear_edge(map, x, y) ==
    ~(y + H_TILES >= MAP_HEIGHT \/ x + W_TILES >= MAP_WIDTH)

LotClear(map, x, y) ==
    /\ ~(y + H_TILES >= MAP_HEIGHT \/ x + W_TILES >= MAP_WIDTH)
    /\ \A dy \in 0 .. (H_TILES - 1) : \A dx \in 0 .. (W_TILES - 1) :
           map[y + dy][x + dx] = "GRASS"

\* the structure's bounds inside the lot after the setbacks
HouseBounds(map, x, y, facing) ==
    LET left   == hasAdjacentRoad(map, x, y + 1)
        right  == hasAdjacentRoad(map, x + W_TILES - 1, y + 1)
        top    == facing # "up" /\ hasAdjacentRoad(map, x + 1, y)
        bottom == facing # "down" /\ hasAdjacentRoad(map, x + 1, y + H_TILES - 1)
        hx == IF left THEN 1 ELSE 0
        hw == W_TILES - (IF left THEN 1 ELSE 0) - (IF right THEN 1 ELSE 0)
        hy == (IF facing = "up" THEN 1 ELSE 0) + (IF top THEN 1 ELSE 0)
        hh == H_TILES - 1 - (IF top THEN 1 ELSE 0) - (IF bottom THEN 1 ELSE 0)
    IN  [x |-> hx, y |-> hy, w |-> IF hw < 2 \/ hh < 1 THEN 0 ELSE hw, h |-> hh]

\* the House record pushed for the lot at (x, y)
MakeHouse(x, y, facing, hb, isRect) ==
    LET pos   == Vec(Px((x + hb.x) * TILE_SIZE), Px((y + hb.y) * TILE_SIZE))
        realW == Px(hb.w * TILE_SIZE)
        realH == Px(hb.h * TILE_SIZE)
        col   == x + hb.x + hb.w - 1
    IN  [ pos |-> pos,
          size |-> Vec(realW, realH),
          facing |-> facing,
          isTarget |-> FALSE,
          doorPos |-> IF facing = "down"
                      THEN Vec(pos.x + (3 * TILE) \div 2, pos.y + realH - Px(8))
                      ELSE Vec(pos.x + (3 * TILE) \div 2, pos.y + Px(8)),
          gardenPos |-> Vec(Px(x * TILE_SIZE), Px(y * TILE_SIZE)),
          gardenSize |-> Vec(Px(W_TILES * TILE_SIZE), Px(H_TILES * TILE_SIZE)),
          drivewayPos |-> IF facing = "down"
                          THEN Vec(Px(col * TILE_SIZE), pos.y + realH - TILE)
                          ELSE Vec(Px(col * TILE_SIZE), pos.y),
          drivewaySize |-> Vec(TILE, TILE),
          shape |-> IF isRect THEN "rect" ELSE "L" ]

\* the tiles of the structure: its rectangle less the L cut-out
HouseTiles(x, y, facing, hb, isRect) ==
    { <<x + hb.x + dx, y + hb.y + dy>> : dx \in 0 .. (hb.w - 1), dy \in 0 .. (hb.h - 1) }
    \ (IF isRect THEN {}
       ELSE { <<x + hb.x + dx, y + hb.y + dy>> :
                dx \in 0 .. 1,
                dy \in IF facing = "down" THEN {hb.h - 1} ELSE {0} })

LotTiles(x, y) ==
    { <<x + dx, y + dy>> : dx \in 0 .. (W_TILES - 1), dy \in 0 .. (H_TILES - 1) }

DrivewayTiles(x, y, hb) ==
    { <<x + hb.x + hb.w - 1, y + dy>> : dy \in 0 .. (H_TILES - 1) }

\* one step of the "PLACE HOUSES" scan: the lot origin (x, y), acc = [map, houses]
BuildLot(acc, x, y, facing, hb, isRect) ==
    IF hb.w = 0
    THEN [map |-> SetTiles(acc.map, LotTiles(x, y), "GARDEN"), houses |-> acc.houses]
    ELSE [map |-> SetTiles(SetTiles(SetTiles(acc.map, LotTiles(x, y), "GARDEN"),
                                    HouseTiles(x, y, facing, hb, isRect), "HOUSE"),
                           DrivewayTiles(x, y, hb), "DRIVEWAY"),
          houses |-> Append(acc.houses, MakeHouse(x, y, facing, hb, isRect))]

PlaceFacing(acc, x, y, park, g, facing) ==
    IF /\ ~InBlock(park, x, y, 1)
       /\ acc.map[y][x] = "GRASS"
       /\ facing # "none"
       /\ <<x, y>> \notin g.skip
       /\ LotClear(acc.map, x, y)
    THEN BuildLot(acc, x, y, facing, HouseBounds(acc.map, x, y, facing), <<x, y>> \in g.rect)
    ELSE acc

PlaceAt(acc, x, y, park, g) == PlaceFacing(acc, x, y, park, g, LotFacing(acc.map, x, y))

\* the inner loop: x from 0 to MAP_WIDTH - 5 in row y
RECURSIVE PlaceRow(_, _, _, _, _)
PlaceRow(acc, x, y, park, g) ==
    IF x >= MAP_WIDTH - 4 THEN acc
    ELSE LET next == PlaceAt(acc, x, y, park, g)
         IN  IF next = acc THEN PlaceRow(acc, x + 1, y, park, g)
             ELSE PlaceRow(next, x + 1, y, park, g)

\* "PLACE HOUSES": the outer loop, y from 0 to MAP_HEIGHT - 4
RECURSIVE PlaceHouses(_, _, _, _)
PlaceHouses(acc, y, park, g) ==
    IF y >= MAP_HEIGHT - 3 THEN acc
    ELSE LET next == PlaceRow(acc, 0, y, park, g)
         IN  IF next = acc THEN PlaceHouses(acc, y + 1, park, g)
             ELSE PlaceHouses(next, y + 1, park, g)

AllTiles == { <<x, y>> : x \in Cols, y \in Rows }

\* "FILL REMAINING SPACE": GRASS inside the road grid, outside the park, is GARDEN
FillGardens(map, vRoads, hRoads, park) ==
    SetTiles(map,
             { t \in AllTiles :
                 /\ t[1] >= vRoads[1] /\ t[1] <= vRoads[Len(vRoads)] + 1
                 /\ t[2] >= hRoads[1] /\ t[2] <= hRoads[Len(hRoads)] + 1
                 /\ ~InBlock(park, t[1], t[2], 0)
                 /\ map[t[2]][t[1]] = "GRASS" },
             "GARDEN")

\* "GENERATE FOOTPATHS": GARDEN and GRASS tiles beside a road become FOOTPATH
FootpathTiles(map) ==
    { t \in AllTiles : /\ map[t[2]][t[1]] \in {"GARDEN", "GRASS"}
                       /\ hasAdjacentRoad(map, t[1], t[2]) }

\* "DECORATE PARK": the pond in the middle of the park block
Pond(park) ==
    LET pw == Min(park.w - 2, 4)
        ph == Min(park.h - 2, 3)
    IN  [x |-> park.x + (park.w - pw) \div 2, y |-> park.y + (park.h - ph) \div 2,
         w |-> pw, h |-> ph]

ParkTiles(park) == { t \in AllTiles : InBlock(park, t[1], t[2], 0) }

\* the map after the filler, footpath and park passes
LayFootpaths(filled) == SetTiles(filled, FootpathTiles(filled), "FOOTPATH")

LayPark(paths, park) ==
    SetTiles(paths, { t \in ParkTiles(park) : paths[t[2]][t[1]] # "FOOTPATH" }, "GARDEN")

DecorateMap(map, vRoads, hRoads, park) ==
    LayPark(LayFootpaths(FillGardens(map, vRoads, hRoads, park)), park)

\* the tiles on which some tree roll is made: backyard, street and park trees
\* (filled is the map after the filler pass)
SitesOn(filled, park) ==
    { t \in AllTiles : filled[t[2]][t[1]] = "GARDEN" }
    \cup FootpathTiles(filled)
    \cup { t \in ParkTiles(park) : ~InBlock(Pond(park), t[1], t[2], 0) }

TreeSites(map, vRoads, hRoads, park) ==
    SitesOn(FillGardens(map, vRoads, hRoads, park), park)

\* a faulty tree whose box fills its tile and 6 px around it
Tree_wide(t) ==
    [pos |-> Vec(Px(t[1] * TILE_SIZE - 6), Px(t[2] * TILE_SIZE - 6)),
     size |-> Vec(Px(44), Px(44))]

\* every tree is a 20 px box centred in its tile
Tree(t) ==
    [pos |-> Vec(Px(t[1] * TILE_SIZE + 6), Px(t[2] * TILE_SIZE + 6)),
     size |-> Vec(Px(20), Px(20))]

PondPuddle(park) ==
    LET pond == Pond(park)
    IN  [pos |-> Vec(Px(pond.x * TILE_SIZE), Px(pond.y * TILE_SIZE)),
         size |-> Vec(Px(pond.w * TILE_SIZE), Px(pond.h * TILE_SIZE))]

\* a faulty start 20 px into the tile
StartInRow_low(map, y) ==
    Vec(Px((CHOOSE c \in Cols : /\ map[y][c] = "ROAD"
                                /\ \A o \in Cols : map[y][o] = "ROAD" => c <= o)
           * TILE_SIZE + 20),
        Px(y * TILE_SIZE + 20))

\* "Start on a valid road": the inner loop breaks at a row's first ROAD tile,
\* the outer loop runs on, so the last row holding a ROAD tile decides
RoadRows(map) == { y \in Rows : \E x \in Cols : map[y][x] = "ROAD" }

StartInRow(map, y) ==
    Vec(Px((CHOOSE c \in Cols : /\ map[y][c] = "ROAD"
                                /\ \A o \in Cols : map[y][o] = "ROAD" => c <= o)
           * TILE_SIZE + 10),
        Px(y * TILE_SIZE + 10))

StartAmong(map, roadRows) ==
    IF roadRows = {} THEN Vec(Px(64), Px(64))
    ELSE StartInRow(map, CHOOSE r \in roadRows : \A o \in roadRows : o <= r)

StartPos(map) == StartAmong(map, RoadRows(map))

FALLBACK_POS == 64           \* getRandomRoadPosition's fallback { x: 64, y: 64 }

\* getRandomRoadPosition with the tile draw d: a ROAD tile whose offset box is
\* walkable and clear of avoidEntities, or FallbackDraw when all 1000 attempts
\* missed
FallbackDraw == <<-1, -1>>

RoadPositionOk(map, d, size, avoid) ==
    \/ d = FallbackDraw
    \/ /\ d \in AllTiles
       /\ map[d[2]][d[1]] = "ROAD"
       /\ LET pos == Vec(Px(d[1] * TILE_SIZE + 4), Px(d[2] * TILE_SIZE + 4))
          IN  /\ isWalkable(pos, size, map)
              /\ \A i \in 1 .. Len(avoid) :
                    ~checkCollision([pos |-> pos, size |-> size], avoid[i])

getRandomRoadPosition(d) ==
    IF d = FallbackDraw THEN Vec(Px(FALLBACK_POS), Px(FALLBACK_POS))
    ELSE Vec(Px(d[1] * TILE_SIZE + 4), Px(d[2] * TILE_SIZE + 4))

\* "RANDOM PUDDLES": g.puddles[i] = [tile, w, h], each avoiding the earlier ones
RECURSIVE SeedPuddles(_, _, _, _)
SeedPuddles(map, puddles, draws, i) ==
    IF i > Len(draws) THEN puddles
    ELSE SeedPuddles(map,
                     Append(puddles,
                            [pos |-> getRandomRoadPosition(draws[i].tile),
                             size |-> Vec(draws[i].w, draws[i].h)]),
                     draws, i + 1)

RECURSIVE PuddleDrawsOk(_, _, _, _)
PuddleDrawsOk(map, puddles, draws, i) ==
    IF i > Len(draws) THEN TRUE
    ELSE /\ RoadPositionOk(map, draws[i].tile, Vec(draws[i].w, draws[i].h), puddles)
         /\ PuddleDrawsOk(map,
                          Append(puddles,
                                 [pos |-> getRandomRoadPosition(draws[i].tile),
                                  size |-> Vec(draws[i].w, draws[i].h)]),
                          draws, i + 1)

CAR_W == 22
CAR_H == 12
CarSize == Vec(Px(CAR_W), Px(CAR_H))

\* "Spawn Cars at Houses": one PARKED car on the driveway of each house in g.cars
SpawnCar(h) ==
    LET home == Vec(h.drivewayPos.x + Px(6), h.drivewayPos.y + Px(6))
    IN  [ pos |-> home, size |-> CarSize, velocity |-> Vec(0, 0),
          speed |-> CAR_SPEED, frozenTimer |-> 0,
          direction |-> IF h.facing = "up" THEN "down" ELSE "up",
          state |-> "PARKED", homePos |-> home ]

RECURSIVE SpawnCars(_, _, _)
SpawnCars(houses, picks, i) ==
    IF i > Len(houses) THEN << >>
    ELSE (IF i \in picks THEN <<SpawnCar(houses[i])>> ELSE << >>)
         \o SpawnCars(houses, picks, i + 1)

PLAYER_SIZE == 14
START_HEALTH == 3

\* the player record initGame writes (the fields kept from the old record are
\* those of the useRef initialiser: speed, direction, stunned)
NewPlayer(startPos) ==
    [ pos |-> startPos, size |-> Vec(Px(PLAYER_SIZE), Px(PLAYER_SIZE)),
      speed |-> Px(PLAYER_SPEED),
      isBoosting |-> FALSE, boostTimer |-> 0, boostCharge |-> 0,
      boostUnlocked |-> FALSE, direction |-> "right", stunned |-> 0,
      puddleImmunity |-> 0,
      health |-> START_HEALTH, maxHealth |-> START_HEALTH,
      invulnerabilityTimer |-> 0 ]

\* the city initGame lays out: the road bands, the park block, the houses and
\* the decorated map, and the tiles on which a tree roll is made
PlanPlaced(vRoads, hRoads, park, placed) ==
    [ vRoads |-> vRoads, hRoads |-> hRoads, park |-> park, houses |-> placed.houses,
      map |-> DecorateMap(placed.map, vRoads, hRoads, park),
      sites |-> TreeSites(placed.map, vRoads, hRoads, park) ]

PlanPark(g, vRoads, hRoads, park) ==
    PlanPlaced(vRoads, hRoads, park,
               PlaceHouses([map |-> RasterizeRoads(vRoads, hRoads), houses |-> << >>],
                           0, park, g))

CityPlan(g) ==
    LET vRoads == GenVRoads(g)
        hRoads == GenHRoads(g)
    IN  PlanPark(g, vRoads, hRoads, ParkBlock(vRoads, hRoads))

Ponds(park) == IF park.w > 0 THEN <<PondPuddle(park)>> ELSE << >>

\* houses[Math.floor(Math.random() * houses.length)].isTarget = true
MarkTarget(houses, target) ==
    [i \in 1 .. Len(houses) |-> [houses[i] EXCEPT !.isTarget = (i = target + 1)]]

NewRound(plan, g, t) ==
    [ isPlaying |-> TRUE,
      isGameOver |-> FALSE,
      score |-> 0,
      timer |-> INITIAL_TIME * MS,
      deliveries |-> 0,
      lastDeliveryTime |-> t * MS,     \* 1000 x the stored number, here now in ms
      trafficPauseTimer |-> 0,
      map |-> plan.map,
      vRoads |-> plan.vRoads,
      hRoads |-> plan.hRoads,
      player |-> NewPlayer(StartPos(plan.map)),
      houses |-> MarkTarget(plan.houses, g.target),
      cars |-> SpawnCars(MarkTarget(plan.houses, g.target), g.cars, 1),
      puddles |-> SeedPuddles(plan.map, Ponds(plan.park), g.puddles, 1),
      powerups |-> << >>,
      staticObjects |-> { Tree(t2) : t2 \in (g.trees \cap plan.sites) } ]

\* initGame: the GameState it stores in state.current, at wall-clock time t
initGame(g, t) == NewRound(CityPlan(g), g, t)

\* the draws are ones Math.random() can produce for this map
PlanDrawsOk(plan, g) ==
    /\ g.target \in 0 .. Max(0, Len(plan.houses) - 1)
    /\ g.cars \subseteq 1 .. Len(plan.houses)
    /\ PuddleDrawsOk(plan.map, Ponds(plan.park), g.puddles, 1)

DrawsOk(g) == PlanDrawsOk(CityPlan(g), g)

---------------------------------------------------------------------------
(* update(deltaTime): one tick.  The tick is a pipeline of steps over a    *)
(* context c = [s, reason, prevDash, done, hung, emitted]: s is            *)
(* state.current, done records an early return, hung a loop that cannot    *)
(* exit, emitted the onScoreUpdate call.  in = [dt, x, y, dash, now] is    *)
(* what the tick reads from its callers, r the Math.random() draws.        *)

INVULNERABILITY_S == 2       \* p.invulnerabilityTimer = 2.0
BOOST_TIME_MS == 500         \* p.boostTimer = 0.5
DELIVERY_RADIUS == 80        \* dist < 80
BONUS_BASE_S == 2            \* let bonusTime = 2
BONUS_FAST_S == 2            \* if (timeSinceLast < 5) bonusTime += 2
BONUS_WINDOW_S == 5
CLOCK_BONUS_S == 10          \* s.timer + 10
TRAFFIC_FREEZE_S == 10       \* frozenTimer = 10.0, trafficPauseTimer = 10.0
RAINCOAT_S == 10             \* puddleImmunity = 10.0
POWERUP_LIFE_S == 10         \* life = 10.0
POWERUP_SIZE == 16
MAX_POWERUPS == 5            \* powerups.length < 5

\* Math.random() as a fraction u / RandRes, u in 0 .. RandRes - 1
RandRes == 4
RandomUnits == 0 .. (RandRes - 1)
\* Math.floor(Math.random() * n)
RandomIndex(u, n) == (u * n) \div RandRes

\* an input component v stands for v / InputOne, so 1.0 is InputOne
InputOne == Px(PLAYER_SPEED)

PowerUpTypes == <<"COFFEE", "TRAFFIC_LIGHT", "CLOCK", "RAINCOAT">>

SeqIndices(seq, Test(_)) == { i \in 1 .. Len(seq) : Test(seq[i]) }

\* the i-th (from 0) element of a finite set of integers, in increasing order
RECURSIVE NthOf(_, _)
NthOf(S, i) ==
    LET m == CHOOSE v \in S : \A o \in S : v <= o
    IN  IF i = 0 THEN m ELSE NthOf(S \ {m}, i - 1)

\* the first index of seq that passes Test, 0 when none does (Array.find)
FindFirst(seq, Test(_)) ==
    LET hits == SeqIndices(seq, Test)
    IN  IF hits = {} THEN 0 ELSE NthOf(hits, 0)

\* the direction of the first ROAD tile next to (tileX, tileY), tried below,
\* above, right and left, else the direction the car already has
RoadSide(map, tileX, tileY, direction) ==
    IF tileY + 1 < MAP_HEIGHT /\ map[tileY + 1][tileX] = "ROAD" THEN "down"
    ELSE IF tileY - 1 >= 0 /\ map[tileY - 1][tileX] = "ROAD" THEN "up"
    ELSE IF tileX + 1 < MAP_WIDTH /\ map[tileY][tileX + 1] = "ROAD" THEN "right"
    ELSE IF tileX - 1 >= 0 /\ map[tileY][tileX - 1] = "ROAD" THEN "left"
    ELSE direction

\* cars[i] starts MERGING, frozen for what is left of a traffic pause
Activate(st, i) ==
    [st EXCEPT !.cars[i] =
        [st.cars[i] EXCEPT
            !.state = "MERGING",
            !.frozenTimer = IF st.trafficPauseTimer > 0 THEN st.trafficPauseTimer ELSE @,
            !.direction = RoadSide(st.map, st.cars[i].pos.x \div TILE,
                                   st.cars[i].pos.y \div TILE, @)]]

\* a faulty activateCar that sends no car out
ActivateAmong_none(st, u, parked) == st

ActivateAmong(st, u, parked) ==
    IF parked = {} THEN st
    ELSE Activate(st, NthOf(parked, RandomIndex(u, Cardinality(parked))))

\* activateCar with the draw u: a random PARKED car starts MERGING, turned
\* toward an adjacent ROAD tile
activateCar(st, u) ==
    ActivateAmong(st, u, SeqIndices(st.cars, LAMBDA c : c.state = "PARKED"))

\* a faulty end of the round that lets the rest of the tick run
EndRound_late(c, st, why) ==
    [c EXCEPT !.s = [st EXCEPT !.isGameOver = TRUE], !.reason = why]

\* the round ends: isGameOver and the reason are set and update returns
EndRound(c, st, why) ==
    [c EXCEPT !.s = [st EXCEPT !.isGameOver = TRUE], !.reason = why, !.done = TRUE]

\* if (p.health <= 0) { isGameOver = true; gameOverReason = 'HEALTH'; return }
EndIfDead(c) == IF c.s.player.health <= 0 THEN EndRound(c, c.s, "HEALTH") ELSE c

\* a faulty timer that runs down without ending the round
StepTimer_endless(c, in) == [c EXCEPT !.s.timer = @ - in.dt]

\* a faulty timer that runs at half pace
StepTimer_half(c, in) ==
    IF c.s.timer - in.dt \div 2 <= 0
    THEN EndRound(c, [c.s EXCEPT !.timer = @ - in.dt \div 2], "TIMEOUT")
    ELSE [c EXCEPT !.s.timer = @ - in.dt \div 2]

\* s.timer -= deltaTime; at or below 0 the round ends by TIMEOUT
StepTimer(c, in) ==
    LET st == [c.s EXCEPT !.timer = @ - in.dt]
    IN  IF st.timer <= 0 THEN EndRound(c, st, "TIMEOUT")
        ELSE [c EXCEPT !.s = st]

StepTrafficPause(c, in) ==
    IF c.done THEN c
    ELSE [c EXCEPT !.s.trafficPauseTimer = IF @ > 0 THEN @ - in.dt ELSE @]

\* the car activation roll (r.spawnCar: Math.random() < spawnChance)
StepSpawnCar(c, r) ==
    IF c.done \/ ~r.spawnCar THEN c
    ELSE [c EXCEPT !.s = activateCar(c.s, r.spawnPick)]

\* the power-up roll (r.spawnPup: Math.random() < 0.005)
StepSpawnPowerup(c, r) ==
    IF c.done \/ ~r.spawnPup \/ ~(Len(c.s.powerups) < MAX_POWERUPS) THEN c
    ELSE [c EXCEPT !.s.powerups =
            Append(@, [ kind |-> PowerUpTypes[RandomIndex(r.pupKind, Len(PowerUpTypes)) + 1],
                        pos |-> getRandomRoadPosition(r.pupTile),
                        size |-> Vec(Px(POWERUP_SIZE), Px(POWERUP_SIZE)),
                        life |-> POWERUP_LIFE_S * MS ])]

\* a faulty checkMove that lets every move through
checkMove_any(nextPos, p, st) == TRUE

\* checkMove: walkable, and clear of every static object
checkMove(nextPos, p, st) ==
    /\ isWalkable(nextPos, p.size, st.map)
    /\ \A obj \in st.staticObjects :
          ~checkCollision([pos |-> nextPos, size |-> p.size], obj)

\* the new p.direction: the y input, when past 0.1, wins over the x input
FaceInput(p, in) ==
    IF Abs(in.y) * 10 > InputOne THEN (IF in.y > 0 THEN "down" ELSE "up")
    ELSE IF Abs(in.x) * 10 > InputOne THEN (IF in.x > 0 THEN "right" ELSE "left")
    ELSE p.direction

\* a faulty boost that costs no charge
BoostStart_free(p, in, prev) ==
    IF in.dash /\ ~prev /\ p.boostCharge >= 1 /\ ~p.isBoosting
    THEN [p EXCEPT !.isBoosting = TRUE, !.boostTimer = BOOST_TIME_MS]
    ELSE p

\* a faulty boost that starts whenever the key is down, held or not
BoostStart_level(p, in, prev) ==
    IF in.dash /\ p.boostCharge >= 1 /\ ~p.isBoosting
    THEN [p EXCEPT !.boostCharge = @ - 1, !.isBoosting = TRUE,
                   !.boostTimer = BOOST_TIME_MS]
    ELSE p

\* "Boost Logic": a rising edge of dash spends one charge on a 0.5 s boost;
\* an active boost then burns deltaTime and ends at or below 0
BoostStart(p, in, prev) ==
    IF in.dash /\ ~prev /\ p.boostCharge >= 1 /\ ~p.isBoosting
    THEN [p EXCEPT !.boostCharge = @ - 1, !.isBoosting = TRUE,
                   !.boostTimer = BOOST_TIME_MS]
    ELSE p

BoostBurn(p, in) ==
    IF p.isBoosting
    THEN [p EXCEPT !.boostTimer = @ - in.dt,
                   !.isBoosting = ~(p.boostTimer - in.dt <= 0)]
    ELSE p

BoostStep(p, in, prev) == BoostBurn(BoostStart(p, in, prev), in)

\* one axis of the move: the next position if checkMove lets it through
MoveX(pos, desiredX, p, st) ==
    IF checkMove(Vec(pos.x + desiredX, pos.y), p, st)
    THEN Vec(pos.x + desiredX, pos.y) ELSE pos

MoveY(pos, desiredY, p, st) ==
    IF checkMove(Vec(pos.x, pos.y + desiredY), p, st)
    THEN Vec(pos.x, pos.y + desiredY) ELSE pos

\* a faulty move that tests both axes at once and moves all or nothing
MoveStep_joint(p, in, speed, st) ==
    IF checkMove(Vec(p.pos.x + (in.x * speed) \div InputOne,
                     p.pos.y + (in.y * speed) \div InputOne), p, st)
    THEN [p EXCEPT !.pos = Vec(p.pos.x + (in.x * speed) \div InputOne,
                               p.pos.y + (in.y * speed) \div InputOne)]
    ELSE p

\* the axis-separated move: x is tested and committed, then y from the new x
MoveStep(p, in, speed, st) ==
    [p EXCEPT !.pos = MoveY(MoveX(p.pos, (in.x * speed) \div InputOne, p, st),
                            (in.y * speed) \div InputOne, p, st)]

InPuddle(p, st) == \E i \in 1 .. Len(st.puddles) : checkCollision(p, st.puddles[i])

\* a faulty hit that leaves the invulnerability timer alone
TakeHit_noGrace(p) == [p EXCEPT !.health = @ - 1]

\* a hit: one heart less and 2.0 s of invulnerability
TakeHit(p) ==
    [p EXCEPT !.health = @ - 1, !.invulnerabilityTimer = INVULNERABILITY_S * MS]

\* a faulty puddle check that ignores the raincoat
Wet_soaked(p, st) ==
    /\ InPuddle(p, st) /\ ~p.isBoosting
    /\ p.invulnerabilityTimer <= 0

\* the puddle check: a player in a puddle, not boosting, without a raincoat
\* and not invulnerable, takes a hit
Wet(p, st) ==
    /\ InPuddle(p, st) /\ ~p.isBoosting
    /\ p.puddleImmunity <= 0 /\ p.invulnerabilityTimer <= 0

Splash(c, in, p) ==
    IF Wet(p, c.s)
    THEN EndIfDead([c EXCEPT !.s.player = TakeHit(p), !.prevDash = in.dash])
    ELSE [c EXCEPT !.s.player = p, !.prevDash = in.dash]

\* speed, facing, boost and move of a player that is not stunned
Walk(p, in, prev, st) ==
    MoveStep(BoostStep([p EXCEPT !.direction = FaceInput(p, in)], in, prev), in,
             IF p.isBoosting THEN Px(BOOST_SPEED) ELSE p.speed, st)

\* "Player Movement": stun countdown, or speed, facing, boost, move and puddle
StepPlayer(c, in) ==
    IF c.done THEN c
    ELSE IF c.s.player.stunned > 0
    THEN [c EXCEPT !.s.player.stunned = @ - in.dt]
    ELSE Splash(c, in, Walk(c.s.player, in, c.prevDash, c.s))

\* faulty buff timers that never run down
StepBuffTimers_keep(c, in) == c

\* the invulnerability and puddle-immunity countdowns
StepBuffTimers(c, in) ==
    IF c.done THEN c
    ELSE [c EXCEPT !.s.player.invulnerabilityTimer = IF @ > 0 THEN @ - in.dt ELSE @,
                   !.s.player.puddleImmunity = IF @ > 0 THEN @ - in.dt ELSE @]

\* a faulty pick that keeps the delivered house as the target
NextHouse_same(houses, t, u) == t

\* the house drawn by the redraw loop of the delivery: the u-th of the houses
\* other than the delivered one (the loop rejects the delivered house itself)
NextHouse(houses, t, u) ==
    LET others == (1 .. Len(houses)) \ {t}
    IN  NthOf(others, RandomIndex(u, Cardinality(others)))

\* a faulty bonus of 5 s whatever the pace
DeliveryBonus_flat(timeSinceLast) == 5

\* let bonusTime = 2; if (timeSinceLast < 5) bonusTime += 2
DeliveryBonus(timeSinceLast) ==
    BONUS_BASE_S + (IF timeSinceLast < BONUS_WINDOW_S * MS THEN BONUS_FAST_S ELSE 0)

\* the delivery itself: score, count, timer bonus and timestamp
HandOver(st, in, t) ==
    [st EXCEPT !.score = @ + 1,
               !.deliveries = @ + 1,
               !.timer = Min(@ + DeliveryBonus(in.now - st.lastDeliveryTime) * MS,
                             INITIAL_TIME * MS),
               !.lastDeliveryTime = in.now,
               !.houses[t].isTarget = FALSE]

Deliver(c, in, r, t) ==
    IF Len(c.s.houses) = 1
    THEN \* every redraw is the delivered house: the loop never exits
         [c EXCEPT !.s = HandOver(c.s, in, t), !.done = TRUE, !.hung = TRUE]
    ELSE [c EXCEPT !.s =
            activateCar([HandOver(c.s, in, t) EXCEPT
                            !.houses[NextHouse(c.s.houses, t, r.nextHouse)].isTarget = TRUE],
                        r.deliveryPick)]

\* houses.find(h => h.isTarget), 0 when there is none
TargetIndex(st) == FindFirst(st.houses, LAMBDA h : h.isTarget)

DeliverAt(c, in, r, t) ==
    IF t = 0 \/ ~DistanceLess(c.s.player.pos, c.s.houses[t].doorPos, Px(DELIVERY_RADIUS))
    THEN c
    ELSE Deliver(c, in, r, t)

\* "Delivery Logic": within 80 px of the target's door the parcel is delivered
StepDelivery(c, in, r) ==
    IF c.done THEN c ELSE DeliverAt(c, in, r, TargetIndex(c.s))

\* a faulty search that knows only the first tile of each band
RoadIndex_left(roads, t) == FindFirst(roads, LAMBDA v : t = v)

\* getTrafficFlow: the flows allowed on tile (tx, ty), vertical road first
RoadIndex(roads, t) == FindFirst(roads, LAMBDA v : t = v \/ t = v + 1)

getTrafficFlow(tx, ty, vRoads, hRoads) ==
    LET vIndex == RoadIndex(vRoads, tx) - 1
        hIndex == RoadIndex(hRoads, ty) - 1
    IN  (IF vIndex = -1 THEN << >>
         ELSE IF vIndex % 2 = 0 THEN <<[x |-> 0, y |-> 1, d |-> "down"]>>
         ELSE <<[x |-> 0, y |-> -1, d |-> "up"]>>)
        \o
        (IF hIndex = -1 THEN << >>
         ELSE IF hIndex % 2 = 0 THEN <<[x |-> -1, y |-> 0, d |-> "left"]>>
         ELSE <<[x |-> 1, y |-> 0, d |-> "right"]>>)

DirX(d) == IF d = "right" THEN 1 ELSE IF d = "left" THEN -1 ELSE 0
DirY(d) == IF d = "down" THEN 1 ELSE IF d = "up" THEN -1 ELSE 0

CarCenter(car) == Vec(car.pos.x + car.size.x \div 2, car.pos.y + car.size.y \div 2)

\* a faulty reset that parks the car where it stands
ParkHome_inPlace(car) == [car EXCEPT !.state = "PARKED", !.velocity = Vec(0, 0)]

\* a car sent back to its driveway
ParkHome(car) ==
    [car EXCEPT !.state = "PARKED", !.pos = car.homePos, !.velocity = Vec(0, 0)]

\* RETURNING: creep along the driveway and park where it ends
CarReturning(car, map) ==
    LET ctr == CarCenter(car)
        tx == ctr.x \div TILE
        ty == ctr.y \div TILE
    IN  IF tx \in Cols /\ map[ty][tx] = "DRIVEWAY"
        THEN LET speed == car.speed \div 2
                 pos == Vec(car.pos.x + DirX(car.direction) * speed,
                            car.pos.y + DirY(car.direction) * speed)
                 nextTx == (pos.x + car.size.x \div 2 + DirX(car.direction) * speed * 5) \div TILE
                 nextTy == (pos.y + car.size.y \div 2 + DirY(car.direction) * speed * 5) \div TILE
             IN  [car EXCEPT !.pos = pos,
                             !.state = IF ~InMap(nextTx, nextTy)
                                          \/ map[nextTy][nextTx] # "DRIVEWAY"
                                       THEN "PARKED" ELSE @]
        ELSE [car EXCEPT !.pos = Vec(car.pos.x + car.velocity.x,
                                     car.pos.y + car.velocity.y)]

\* s.map[ty] is undefined when the centre of a RETURNING car leaves the rows,
\* and reading [tx] of it throws
ReturningThrows(car) == ~(CarCenter(car).y \div TILE \in Rows)

\* the car's position after a step of the given speed along its direction
StepAlong(car, speed) ==
    Vec(car.pos.x + DirX(car.direction) * speed,
        car.pos.y + DirY(car.direction) * speed)

\* a faulty snap that lets the car drive on from where it stands
Snap_loose(car, tx, ty) == [car EXCEPT !.state = "DRIVING"]

\* the car snaps to tile (tx, ty) and drives off along the first flow there
Snap(car, tx, ty) ==
    [car EXCEPT !.state = "DRIVING",
                !.pos = Vec(tx * TILE + (TILE - car.size.x) \div 2,
                            ty * TILE + (TILE - car.size.y) \div 2)]

JoinFlow(car, tx, ty, flows) ==
    IF Len(flows) = 0 THEN Snap(car, tx, ty)
    ELSE [Snap(car, tx, ty) EXCEPT !.direction = flows[1].d,
                                   !.velocity = Vec(flows[1].x * car.speed,
                                                    flows[1].y * car.speed)]

MergeAt(car, st, pos) ==
    LET tx == (pos.x + car.size.x \div 2) \div TILE
        ty == (pos.y + car.size.y \div 2) \div TILE
    IN  IF InMap(tx, ty) /\ st.map[ty][tx] = "ROAD"
        THEN JoinFlow(car, tx, ty, getTrafficFlow(tx, ty, st.vRoads, st.hRoads))
        ELSE [car EXCEPT !.pos = pos]

\* MERGING: half speed along the direction until the centre is on a ROAD tile
CarMerging(car, st) == MergeAt(car, st, StepAlong(car, car.speed \div 2))

isRoad(map, tx, ty) == InMap(tx, ty) /\ map[ty][tx] = "ROAD"

Neighbors ==
    << [dx |-> 1, dy |-> 0, d |-> "right"], [dx |-> -1, dy |-> 0, d |-> "left"],
       [dx |-> 0, dy |-> 1, d |-> "down"], [dx |-> 0, dy |-> -1, d |-> "up"] >>

ReverseDir(d) ==
    IF d = "left" THEN "right" ELSE IF d = "right" THEN "left"
    ELSE IF d = "up" THEN "down" ELSE "up"

\* Array.filter on a sequence
RECURSIVE FilterSeq(_, _, _)
FilterSeq(seq, Test(_), i) ==
    IF i > Len(seq) THEN << >>
    ELSE (IF Test(seq[i]) THEN <<seq[i]>> ELSE << >>) \o FilterSeq(seq, Test, i + 1)

\* diff * 0.1 of the lane-centring drift, toward zero on the unit grid
Tenth(diff) == IF diff >= 0 THEN diff \div 10 ELSE -((-diff) \div 10)

\* the driveways next to tile (tileX, tileY), as indices of Neighbors
DrivewaysAt(map, tileX, tileY) ==
    SeqIndices(Neighbors, LAMBDA n :
        /\ InMap(tileX + n.dx, tileY + n.dy)
        /\ map[tileY + n.dy][tileX + n.dx] = "DRIVEWAY")

\* a faulty peel-off that puts the car back into MERGING
PeelOff_merging(car, n, centred) ==
    [car EXCEPT !.state = "MERGING", !.direction = n.d,
                !.velocity = Vec(n.dx * (car.speed \div 2), n.dy * (car.speed \div 2)),
                !.pos = centred]

\* the car peels off toward the driveway at neighbour n, centred on the tile
PeelOff(car, n, centred) ==
    [car EXCEPT !.state = "RETURNING", !.direction = n.d,
                !.velocity = Vec(n.dx * (car.speed \div 2), n.dy * (car.speed \div 2)),
                !.pos = centred]

\* validOptions: the flows whose next tile is ROAD, and whose second tile is
\* ROAD too when the flow is a turn
ValidOptions(car, st, tileX, tileY) ==
    FilterSeq(getTrafficFlow(tileX, tileY, st.vRoads, st.hRoads), LAMBDA flow :
        /\ isRoad(st.map, tileX + flow.x, tileY + flow.y)
        /\ (flow.d # car.direction =>
               isRoad(st.map, tileX + 2 * flow.x, tileY + 2 * flow.y)),
        1)

\* candidates: the options that are not a U-turn, or all of them if none is
Forward(validOptions, car) ==
    FilterSeq(validOptions, LAMBDA o : o.d # ReverseDir(car.direction), 1)

Candidates(validOptions, forward) ==
    IF Len(forward) = 0 THEN validOptions ELSE forward

\* choice: straight on when that is a candidate and the draw keeps it, else
\* the candidate drawn
Choice(candidates, car, rc) ==
    LET straight == FindFirst(candidates, LAMBDA o : o.d = car.direction)
    IN  IF straight # 0 /\ rc.keep THEN candidates[straight]
        ELSE candidates[RandomIndex(rc.pick, Len(candidates)) + 1]

\* the car takes the chosen flow, snapped to the tile centre when it turns
TakeFlow(car, choice, centred) ==
    IF choice.d # car.direction
    THEN [car EXCEPT !.pos = centred,
                     !.velocity = Vec(choice.x * car.speed, choice.y * car.speed),
                     !.direction = choice.d]
    ELSE [car EXCEPT !.velocity = Vec(choice.x * car.speed, choice.y * car.speed)]

PickOption(car, validOptions, rc, centred) ==
    IF Len(validOptions) = 0 THEN [car |-> ParkHome(car), go |-> FALSE]
    ELSE [car |-> TakeFlow(car,
                           Choice(Candidates(validOptions, Forward(validOptions, car)),
                                  car, rc),
                           centred),
          go |-> TRUE]

\* DRIVING at a tile centre: peel off into a neighbouring driveway (rc.peel),
\* else pick a flow; the result says whether the loop body went on (go) to
\* the move and the collision test
CarTurn(car, st, rc, tileX, tileY, target) ==
    LET driveways == DrivewaysAt(st.map, tileX, tileY)
        centred == Vec(target.x - car.size.x \div 2, target.y - car.size.y \div 2)
    IN  IF rc.peel /\ driveways # {}
        THEN [car |-> PeelOff(car, Neighbors[NthOf(driveways, 0)], centred), go |-> FALSE]
        ELSE PickOption(car, ValidOptions(car, st, tileX, tileY), rc, centred)

\* DRIVING between centres: drift a tenth of the way back to the lane centre
DriftBy(diff) == IF Abs(diff) > Px(1) THEN Tenth(diff) ELSE 0

CarDrift(car, target) ==
    IF car.direction \in {"left", "right"}
    THEN [car EXCEPT !.pos.y = @ + DriftBy(target.y - (car.pos.y + car.size.y \div 2))]
    ELSE [car EXCEPT !.pos.x = @ + DriftBy(target.x - (car.pos.x + car.size.x \div 2))]

\* the centre of the tile under the point ctr
TileCenter(ctr) ==
    Vec((ctr.x \div TILE) * TILE + TILE \div 2, (ctr.y \div TILE) * TILE + TILE \div 2)

\* a DRIVING car is at a tile centre, where it reads its draws
AtCenter(car) ==
    LET ctr == CarCenter(car)
        target == TileCenter(ctr)
    IN  Abs(ctr.x - target.x) + Abs(ctr.y - target.y) < car.speed

\* the car moves by its velocity, and goes home when that takes it off the map
CarAdvance(car) ==
    [car EXCEPT !.pos = Vec(car.pos.x + car.velocity.x, car.pos.y + car.velocity.y)]

HomeIfOff(moved) ==
    IF \/ moved.pos.x < 0 \/ moved.pos.x > Px(MAP_PIXEL_WIDTH)
       \/ moved.pos.y < 0 \/ moved.pos.y > Px(MAP_PIXEL_HEIGHT)
    THEN ParkHome(moved) ELSE moved

CarGo(turned) ==
    IF ~turned.go THEN turned
    ELSE [car |-> HomeIfOff(CarAdvance(turned.car)), go |-> TRUE]

\* "DRIVING STATE": turn or drift, move, and go home when off the map
CarDriving(car, st, rc) ==
    LET ctr == CarCenter(car)
        target == TileCenter(ctr)
    IN  CarGo(IF AtCenter(car)
              THEN CarTurn(car, st, rc, ctr.x \div TILE, ctr.y \div TILE, target)
              ELSE [car |-> CarDrift(car, target), go |-> TRUE])

\* the collision test at the end of the loop body: a car that touches the
\* player costs a heart unless the player is boosting or invulnerable
CarHits(p, car, res) ==
    /\ res.go
    /\ checkCollision(p, res.car)
    /\ (car.state = "MERGING" \/ p.stunned <= 0)
    /\ ~p.isBoosting
    /\ p.invulnerabilityTimer <= 0

CarOutcome(c, i, p, car, res) ==
    IF CarHits(p, car, res)
    THEN EndIfDead([c EXCEPT !.s.cars[i] = res.car, !.s.player = TakeHit(p)])
    ELSE [c EXCEPT !.s.cars[i] = res.car]

CarActive(c, r, i, car) ==
    IF car.state = "RETURNING"
    THEN IF ReturningThrows(car) THEN [c EXCEPT !.done = TRUE, !.hung = TRUE]
         ELSE [c EXCEPT !.s.cars[i] = CarReturning(car, c.s.map)]
    ELSE CarOutcome(c, i, c.s.player, car,
                    IF car.state = "MERGING"
                    THEN [car |-> CarMerging(car, c.s), go |-> TRUE]
                    ELSE CarDriving(car, c.s, r.car[i]))

\* a faulty loop body that lets frozen cars drive on
CarBody_thawed(c, in, r, i) ==
    IF c.s.cars[i].state = "PARKED" THEN c
    ELSE CarActive(c, r, i, c.s.cars[i])

\* the body of the car loop for cars[i]
CarBody(c, in, r, i) ==
    IF c.s.cars[i].frozenTimer > 0
    THEN [c EXCEPT !.s.cars[i].frozenTimer = @ - in.dt]
    ELSE IF c.s.cars[i].state = "PARKED" THEN c
    ELSE CarActive(c, r, i, c.s.cars[i])

\* "Car Logic": the loop over s.entities.cars, left by the return of a fatal hit
RECURSIVE CarLoop(_, _, _, _)
CarLoop(c, in, r, i) ==
    IF c.done \/ i > Len(c.s.cars) THEN c
    ELSE CarLoop(CarBody(c, in, r, i), in, r, i + 1)

StepCars(c, in, r) == CarLoop(c, in, r, 1)

\* a faulty pickup whose COFFEE also stops the traffic
ApplyPowerup_stops(st, kind) ==
    [st EXCEPT !.player.boostCharge = Min(@ + 1, MAX_BOOST_CHARGE),
               !.player.boostUnlocked = TRUE,
               !.player.health = Min(@ + 1, st.player.maxHealth),
               !.cars = [i \in 1 .. Len(st.cars) |->
                           [st.cars[i] EXCEPT !.frozenTimer = TRAFFIC_FREEZE_S * MS]],
               !.trafficPauseTimer = TRAFFIC_FREEZE_S * MS]

\* a faulty pickup whose COFFEE heals past maxHealth
ApplyPowerup_uncapped(st, kind) ==
    IF kind = "COFFEE"
    THEN [st EXCEPT !.player.boostCharge = Min(@ + 1, MAX_BOOST_CHARGE),
                    !.player.boostUnlocked = TRUE,
                    !.player.health = @ + 1]
    ELSE st

\* what picking up a power-up of the given kind does to the round
ApplyPowerup(st, kind) ==
    IF kind = "COFFEE"
    THEN [st EXCEPT !.player.boostCharge = Min(@ + 1, MAX_BOOST_CHARGE),
                    !.player.boostUnlocked = TRUE,
                    !.player.health = Min(@ + 1, st.player.maxHealth)]
    ELSE IF kind = "CLOCK"
    THEN [st EXCEPT !.timer = Min(@ + CLOCK_BONUS_S * MS, INITIAL_TIME * MS)]
    ELSE IF kind = "TRAFFIC_LIGHT"
    THEN [st EXCEPT !.cars = [i \in 1 .. Len(st.cars) |->
                                [st.cars[i] EXCEPT !.frozenTimer = TRAFFIC_FREEZE_S * MS]],
                    !.trafficPauseTimer = TRAFFIC_FREEZE_S * MS]
    ELSE [st EXCEPT !.player.puddleImmunity = RAINCOAT_S * MS]

\* the powerups filter: each power-up ages, expires, or is picked up
RECURSIVE PowerupLoop(_, _, _, _)
PowerupLoop(st, in, i, kept) ==
    IF i > Len(st.powerups) THEN [st EXCEPT !.powerups = kept]
    ELSE
      LET pup == [st.powerups[i] EXCEPT !.life = @ - in.dt]
      IN  IF pup.life <= 0 THEN PowerupLoop(st, in, i + 1, kept)
          ELSE IF checkCollision(st.player, pup)
          THEN PowerupLoop(ApplyPowerup(st, pup.kind), in, i + 1, kept)
          ELSE PowerupLoop(st, in, i + 1, Append(kept, pup))

StepPowerups(c, in) ==
    IF c.done THEN c
    ELSE [c EXCEPT !.s = PowerupLoop(c.s, in, 1, << >>)]

\* the values handed to onScoreUpdate at the end of a tick that did not return
Snapshot(st) ==
    [ score |-> st.score, timer |-> st.timer, health |-> st.player.health,
      trafficPauseTimer |-> st.trafficPauseTimer,
      puddleImmunity |-> st.player.puddleImmunity,
      boostCharge |-> st.player.boostCharge,
      boostUnlocked |-> st.player.boostUnlocked ]

StepSnapshot(c) == IF c.done THEN c ELSE [c EXCEPT !.emitted = TRUE]

\* update(deltaTime) on the context c
update(c, in, r) ==
    IF ~c.s.isPlaying \/ c.s.isGameOver THEN c
    ELSE
      LET c1 == StepTimer(c, in)
          c2 == StepTrafficPause(c1, in)
          c3 == StepSpawnCar(c2, r)
          c4 == StepSpawnPowerup(c3, r)
          c5 == StepPlayer(c4, in)
          c6 == StepBuffTimers(c5, in)
          c7 == StepDelivery(c6, in, r)
          c8 == StepCars(c7, in, r)
          c9 == StepPowerups(c8, in)
      IN  StepSnapshot(c9)

---------------------------------------------------------------------------
(* The draws of one tick.  A draw that the tick cannot read (the pick of a  *)
(* roll that failed, the draws of a car that is not at a tile centre) is    *)
(* fixed, so that equal ticks are not enumerated twice.  A profile pr names *)
(* the rolls a specification lets succeed: pr.spawnCar and pr.spawnPup are  *)
(* sets of outcomes, pr.pupKinds the kind draws, pr.pupTiles the tile       *)
(* draws, pr.maxPups the power-ups it lets lie on the map at once,          *)
(* pr.maxFrames the loop callbacks it follows a round for.                  *)

NoCarDraw == [peel |-> FALSE, pick |-> 0, keep |-> FALSE]

CarDraws(car) ==
    IF car.state = "DRIVING" /\ car.frozenTimer <= 0 /\ AtCenter(car)
    THEN [peel : BOOLEAN, pick : RandomUnits, keep : BOOLEAN]
    ELSE {NoCarDraw}

RECURSIVE CarDrawSeqs(_, _)
CarDrawSeqs(cars, i) ==
    IF i > Len(cars) THEN { << >> }
    ELSE { <<d>> \o rest : d \in CarDraws(cars[i]), rest \in CarDrawSeqs(cars, i + 1) }

ParkedCount(st) == Cardinality(SeqIndices(st.cars, LAMBDA c : c.state = "PARKED"))

PickDraws(st) == IF ParkedCount(st) > 1 THEN RandomUnits ELSE {0}

SpawnDraws(st, pr) ==
    { [roll |-> a, pick |-> IF a THEN b ELSE 0] : a \in pr.spawnCar, b \in PickDraws(st) }

PupDraws(st, pr) ==
    { [roll |-> FALSE, kind |-> 0, tile |-> FallbackDraw] }
    \cup
    (IF TRUE \in pr.spawnPup /\ Len(st.powerups) < pr.maxPups
     THEN { [roll |-> TRUE, kind |-> k, tile |-> d] :
               k \in pr.pupKinds,
               d \in { t \in pr.pupTiles :
                         RoadPositionOk(st.map, t,
                                        Vec(Px(POWERUP_SIZE), Px(POWERUP_SIZE)),
                                        st.puddles) } }
     ELSE {})

\* the target's door is close enough for this tick's move to end in a delivery
NearTarget(st) ==
    \E i \in 1 .. Len(st.houses) :
        /\ st.houses[i].isTarget
        /\ DistanceLess(st.player.pos, st.houses[i].doorPos,
                        Px(DELIVERY_RADIUS + 2 * BOOST_SPEED))

TickDraws(st, pr) ==
    { [ spawnCar |-> a.roll, spawnPick |-> a.pick,
        spawnPup |-> b.roll, pupKind |-> b.kind, pupTile |-> b.tile,
        nextHouse |-> n, deliveryPick |-> dp, car |-> k ] :
        a \in SpawnDraws(st, pr), b \in PupDraws(st, pr),
        n \in (IF Len(st.houses) > 2 /\ NearTarget(st) THEN RandomUnits ELSE {0}),
        dp \in PickDraws(st), k \in CarDrawSeqs(st.cars, 1) }

---------------------------------------------------------------------------
(* The animation-frame driver and the pause switch *)

DT_CLAMP_MS == 100           \* Math.min(deltaTime, 0.1)

\* a faulty loop that hands the whole frame gap to update
ClampDt_raw(deltaTime) == deltaTime

\* const dt = Math.min(deltaTime, 0.1)
ClampDt(deltaTime) == Min(deltaTime, DT_CLAMP_MS)

\* a loop that ticks whether or not the game is paused
Running_always == ~s.isGameOver

\* if (!isPaused && !state.current.isGameOver): this callback runs update
Running == ~isPaused /\ ~s.isGameOver

\* loop(time): the requestAnimationFrame callback that arrives gap ms after
\* the previous reading of the clock, with the input held by inputRef
Frame(gap, in, pr) ==
    /\ rafPending /\ ~hung
    /\ frames < pr.maxFrames
    /\ \E r \in TickDraws(s, pr) :
         LET time == now + gap
             deltaTime == time - lastTime
             c0 == [ s |-> s, reason |-> gameOverReason, prevDash |-> prevDash,
                     done |-> FALSE, hung |-> FALSE, emitted |-> FALSE ]
             tick == [ dt |-> ClampDt(deltaTime), x |-> in.x, y |-> in.y,
                       dash |-> in.dash, now |-> time ]
         IN  \E c \in { IF Running THEN update(c0, tick, r) ELSE c0 } :
               LET over == c.s.isGameOver /\ ~gameOverSent /\ ~c.hung
               IN  /\ now' = time
                   /\ lastTime' = time
                   /\ s' = c.s
                   /\ gameOverReason' = c.reason
                   /\ prevDash' = c.prevDash
                   /\ hung' = c.hung
                   /\ snapshot' = IF c.emitted THEN <<Snapshot(c.s)>> ELSE snapshot
                   /\ gameOverSent' = (gameOverSent \/ over)
                   /\ gameOverCalls' = IF over
                                       THEN Append(gameOverCalls,
                                                   [score |-> c.s.score, reason |-> c.reason])
                                       ELSE gameOverCalls
                   /\ isPaused' = (isPaused /\ ~over)   \* handleGameOver: setPaused(false)
                   /\ rafPending' = (~c.hung /\ ~c.s.isGameOver)
                   /\ frames' = frames + 1
                   /\ UNCHANGED <<v1, probe>>

\* the callback the loop has asked for arrives: requestAnimationFrame calls
\* loop whenever a request is pending (followed for at most max callbacks)
FrameDue(max) == rafPending /\ ~hung /\ frames < max /\ frames' = frames + 1

\* Space or the pause button while the round is on: the isPaused prop flips
\* and the loop effect runs again (cancel, re-read the clock, request a frame)
TogglePause ==
    /\ ~hung
    /\ gameOverCalls = << >>
    /\ isPaused' = ~isPaused
    /\ lastTime' = now
    /\ rafPending' = TRUE
    /\ UNCHANGED <<s, gameOverReason, gameOverSent, prevDash, now, hung, snapshot,
                   gameOverCalls, frames, v1, probe>>

\* a faulty re-run that starts the bookkeeping of the round over
EffectRerun_reset ==
    /\ ~hung
    /\ s.isGameOver
    /\ isPaused' = ~isPaused
    /\ lastTime' = now
    /\ rafPending' = TRUE
    /\ gameOverSent' = FALSE
    /\ UNCHANGED <<s, gameOverReason, prevDash, now, hung, snapshot,
                   gameOverCalls, frames, v1, probe>>

\* the isPaused prop changes after the round has ended: the effect's cleanup
\* cancels the frame, its body finds isPlaying set, re-reads the clock and
\* requests a frame
EffectRerun ==
    /\ ~hung
    /\ s.isGameOver
    /\ isPaused' = ~isPaused
    /\ lastTime' = now
    /\ rafPending' = TRUE
    /\ UNCHANGED <<s, gameOverReason, gameOverSent, prevDash, now, hung, snapshot,
                   gameOverCalls, frames, v1, probe>>

---------------------------------------------------------------------------
(* The earlier GameLoop variant (src/unnamed/part_000): the round          *)
(* bookkeeping of its update.  Whether the player is within 45 px of the    *)
(* target's door (near) and whether the last delivery is less than 5 s old  *)
(* (fast) are inputs of the tick.                                           *)

ROAD_INTERVAL_X == 10
ROAD_INTERVAL_Y == 6
ROAD_WIDTH_TILES == 2
BIKE_W == 12                 \* size: { x: 12, y: 24 }
BIKE_H == 24

\* JavaScript's %: the remainder has the sign of the dividend
JsRem(a, n) == IF a < 0 THEN -((-a) % n) ELSE a % n

\* "Draw Roads": GRASS on a margin of 2 tiles, inside it the road grid.  The
\* later steps of the earlier initGame repaint tiles that are not ROAD and
\* paint no tile ROAD; they are left out.
RoadsV1 ==
    [y \in Rows |-> [x \in Cols |->
        IF x < 2 \/ x >= MAP_WIDTH - 2 \/ y < 2 \/ y >= MAP_HEIGHT - 2 THEN "GRASS"
        ELSE IF \/ JsRem(x - 2, ROAD_INTERVAL_X) < ROAD_WIDTH_TILES
                \/ JsRem(y - 3, ROAD_INTERVAL_Y) < ROAD_WIDTH_TILES
        THEN "ROAD" ELSE "GRASS"]]

NoV1 == [ isPlaying |-> FALSE, isGameOver |-> FALSE, score |-> 0, combo |-> 0,
          timer |-> INITIAL_TIME * MS, deliveries |-> 0,
          pos |-> Vec(0, 0), size |-> Vec(Px(BIKE_W), Px(BIKE_H)) ]

initGameV1 == [NoV1 EXCEPT !.isPlaying = TRUE, !.pos = StartPos(RoadsV1)]

\* a faulty score without the combo point
ComboScore_flat(combo) == 1

\* s.score += 1 + (s.combo > 5 ? 1 : 0)
ComboScore(combo) == 1 + (IF combo > 5 THEN 1 ELSE 0)

updateV1(st, dt, near, fast) ==
    IF ~st.isPlaying \/ st.isGameOver THEN st
    ELSE IF st.timer - dt <= 0
    THEN [st EXCEPT !.timer = @ - dt, !.isGameOver = TRUE]
    ELSE IF near
    THEN [st EXCEPT !.score = @ + ComboScore(st.combo),
                    !.combo = @ + 1,
                    !.deliveries = @ + 1,
                    !.timer = Min(@ - dt + (BONUS_BASE_S + (IF fast THEN BONUS_FAST_S ELSE 0)) * MS,
                                  INITIAL_TIME * MS)]
    ELSE [st EXCEPT !.timer = @ - dt]

MaxFramesV1 == 9             \* loop callbacks followed in the earlier variant

\* the earlier variant's loop callback
FrameV1(gap, near, fast) ==
    /\ v1.isPlaying /\ ~v1.isGameOver
    /\ frames < MaxFramesV1
    /\ v1' = updateV1(v1, Min(now + gap - lastTime, DT_CLAMP_MS), near, fast)
    /\ now' = now + gap
    /\ lastTime' = now + gap
    /\ frames' = frames + 1
    /\ UNCHANGED <<s, gameOverReason, gameOverSent, prevDash, isPaused, rafPending,
                   hung, snapshot, gameOverCalls, probe>>

---------------------------------------------------------------------------
(* Initial states.  A round starts from initGame.  Idle(st, ms) is the      *)
(* round after ms of ticks in which nothing but the clock moved: no input,  *)
(* every roll failed, the player neither in a puddle nor at the target's    *)
(* door (IdleOk); such ticks change the timer and nothing else.             *)

\* no function has been called on its own
NoProbe == [fn |-> "", args |-> << >>, out |-> << >>]

\* state.current as the useRef initialiser leaves it, before initGame
Unmounted ==
    [ isPlaying |-> FALSE, isGameOver |-> FALSE, score |-> 0,
      timer |-> INITIAL_TIME * MS, deliveries |-> 0, lastDeliveryTime |-> 0,
      trafficPauseTimer |-> 0, map |-> << >>, vRoads |-> << >>, hRoads |-> << >>,
      player |-> NewPlayer(Vec(0, 0)), houses |-> << >>, cars |-> << >>,
      puddles |-> << >>, powerups |-> << >>, staticObjects |-> {} ]

IdleOk(st) ==
    /\ ~InPuddle(st.player, st)
    /\ \A i \in 1 .. Len(st.houses) :
          st.houses[i].isTarget =>
             ~DistanceLess(st.player.pos, st.houses[i].doorPos, Px(DELIVERY_RADIUS))

Idle(st, ms) == [st EXCEPT !.timer = @ - ms]

\* GameLoop mounted on the draws g, then idle for `idle` ms
Mounted(g, idle) ==
    /\ DrawsOk(g)
    /\ \E st \in { initGame(g, 0) } :
         /\ idle > 0 => IdleOk(st)
         /\ s = Idle(st, idle)
         /\ snapshot = IF idle > 0 THEN <<Snapshot(Idle(st, idle))>> ELSE << >>
    /\ gameOverReason = ""
    /\ gameOverSent = FALSE
    /\ prevDash = FALSE
    /\ isPaused = FALSE
    /\ now = idle
    /\ lastTime = idle
    /\ rafPending = TRUE
    /\ hung = FALSE
    /\ gameOverCalls = << >>
    /\ frames = 0
    /\ v1 = NoV1
    /\ probe = NoProbe

\* the earlier variant mounted instead
MountedV1 ==
    /\ s = Unmounted
    /\ snapshot = << >>
    /\ gameOverReason = ""
    /\ gameOverSent = FALSE
    /\ prevDash = FALSE
    /\ isPaused = FALSE
    /\ now = 0
    /\ lastTime = 0
    /\ rafPending = FALSE
    /\ hung = FALSE
    /\ gameOverCalls = << >>
    /\ frames = 0
    /\ v1 = initGameV1
    /\ probe = NoProbe

\* a faulty restart whose new player keeps the health of the old one
Restart_keepHealth(g, by) ==
    /\ gameOverCalls # << >>
    /\ frames < by
    /\ DrawsOk(g)
    /\ s' = [initGame(g, now) EXCEPT !.player.health = s.player.health]
    /\ gameOverReason' = ""
    /\ gameOverSent' = FALSE
    /\ prevDash' = FALSE
    /\ isPaused' = FALSE
    /\ lastTime' = now
    /\ rafPending' = TRUE
    /\ hung' = FALSE
    /\ snapshot' = << >>
    /\ gameOverCalls' = << >>
    /\ UNCHANGED <<now, frames, v1, probe>>

\* startGame on the game-over screen, before callback `by`: the key of the
\* GameLoop element changes, so a new instance is mounted with fresh refs
\* and its effect runs initGame on the draws g; frames goes on counting
Restart(g, by) ==
    /\ gameOverCalls # << >>
    /\ frames < by
    /\ DrawsOk(g)
    /\ s' = initGame(g, now)
    /\ gameOverReason' = ""
    /\ gameOverSent' = FALSE
    /\ prevDash' = FALSE
    /\ isPaused' = FALSE
    /\ lastTime' = now
    /\ rafPending' = TRUE
    /\ hung' = FALSE
    /\ snapshot' = << >>
    /\ gameOverCalls' = << >>
    /\ UNCHANGED <<now, frames, v1, probe>>

\* no component mounted: a function of the module is about to be called on
\* its own, p naming it and holding the arguments that are already fixed
Alone(p) ==
    /\ s = Unmounted
    /\ snapshot = << >>
    /\ gameOverReason = ""
    /\ gameOverSent = FALSE
    /\ prevDash = FALSE
    /\ isPaused = FALSE
    /\ now = 0
    /\ lastTime = 0
    /\ rafPending = FALSE
    /\ hung = FALSE
    /\ gameOverCalls = << >>
    /\ frames = 0
    /\ v1 = NoV1
    /\ probe = p

\* the player's input: x and y in units of 1 / InputOne, and the dash key
Input(x, y, dash) == [x |-> x, y |-> y, dash |-> dash]

\* a city draw: road gaps, failed lot rolls, first target, puddles, cars
City(hGap, skip, target, puddles, cars) ==
    [ vGaps |-> <<0>>, hGaps |-> <<hGap>>, skip |-> skip, rect |-> {}, trees |-> {},
      target |-> target, puddles |-> puddles, cars |-> cars ]

---------------------------------------------------------------------------
(* Spec: the hazards of a round, in two cities.  In the puddle city a wide  *)
(* puddle lies under the start position and COFFEE and CLOCK power-ups may  *)
(* spawn on the tile to its right, so that the player can stand in the      *)
(* puddle and on a power-up at once.  In the traffic city the car of the    *)
(* first house is activated in the first tick and drives to the start       *)
(* corner, where a puddle lies a few steps to the right of the player; the  *)
(* player stands still until the car is near and may then step right, and   *)
(* COFFEE may spawn on the start tile from then on.                         *)

StartTile == <<2, MAP_HEIGHT - 1>>
RightTile == <<3, MAP_HEIGHT - 1>>

PuddleFrames == 62           \* frames followed in the puddle city
TrafficFrames == 212         \* frames followed in the traffic city
NEAR_PX == 48                \* a car this close to the player is near

Puddle(tile, w, h) == [tile |-> tile, w |-> Px(w), h |-> Px(h)]

PuddleCity == City(1, {}, 0, <<Puddle(StartTile, 27, 12)>>, {})
TrafficCity == City(1, {}, 0, <<Puddle(RightTile, 15, 12)>>, {1})

InTraffic(st) == Len(st.cars) > 0

CarNear(st) ==
    \E i \in 1 .. Len(st.cars) :
        /\ st.cars[i].state = "DRIVING"
        /\ DistanceLess(st.cars[i].pos, st.player.pos, Px(NEAR_PX))

ProfileFor(st) ==
    IF InTraffic(st)
    THEN [ spawnCar |-> {TRUE},
           spawnPup |-> IF CarNear(st) THEN BOOLEAN ELSE {FALSE},
           pupKinds |-> {0}, pupTiles |-> {StartTile}, maxPups |-> 1,
           maxFrames |-> TrafficFrames ]
    ELSE [ spawnCar |-> {FALSE}, spawnPup |-> BOOLEAN, pupKinds |-> {0},
           pupTiles |-> {RightTile}, maxPups |-> 1,
           maxFrames |-> PuddleFrames ]

\* stand still, or step right
InputsFor(st) ==
    IF InTraffic(st) /\ ~CarNear(st)
    THEN { Input(0, 0, FALSE) }
    ELSE { Input(0, 0, FALSE), Input(InputOne, 0, FALSE) }

Init ==
    \/ Mounted(PuddleCity, 0)
    \/ Mounted(TrafficCity, 0)

Next == \E in \in InputsFor(s) : Frame(DT_CLAMP_MS, in, ProfileFor(s))

Spec == Init /\ [][Next]_vars

\* a loop callback that ran update on a running round
Ticked == frames' = frames + 1 /\ ~isPaused /\ ~s.isGameOver

\* the clamped delta of this callback
TickDt == Min(now' - lastTime, DT_CLAMP_MS)

\* the player overlaps a puddle, or a car that is merging or driving
Contact(st) ==
    \/ InPuddle(st.player, st)
    \/ \E i \in 1 .. Len(st.cars) :
          /\ st.cars[i].state \in {"MERGING", "DRIVING"}
          /\ st.cars[i].frozenTimer <= 0
          /\ checkCollision(st.player, st.cars[i])

\* the invulnerability timer was set in this tick: the player took a hit
Hit == s'.player.invulnerabilityTimer > s.player.invulnerabilityTimer

(* C3: in every state 0 <= health <= maxHealth, whatever puddle hits, car   *)
(* hits and COFFEE pickups came before; and a state with health 0 is game   *)
(* over with reason HEALTH, the tick that took the last heart having ended  *)
(* the round and reported it before it returned.                            *)
C3_HealthBounds ==
    /\ 0 <= s.player.health
    /\ s.player.health <= s.player.maxHealth
    /\ s.player.health = 0 =>
          /\ s.isGameOver
          /\ gameOverReason = "HEALTH"
          /\ gameOverCalls = <<[score |-> s.score, reason |-> "HEALTH"]>>

\* the last heart is lost in a puddle after a COFFEE had healed the player
C3_Witness ==
    /\ s.player.health = 0
    /\ s.player.boostCharge > 0
    /\ InPuddle(s.player, s)
    /\ gameOverReason = "HEALTH"

DeadEnd(st, i) ==
    LET car == st.cars[i]
        ctr == CarCenter(car)
    IN  /\ car.state = "DRIVING" /\ car.frozenTimer <= 0 /\ AtCenter(car)
        /\ Forward(ValidOptions(car, st, ctr.x \div TILE, ctr.y \div TILE), car) = << >>

AtHome(car) ==
    car.state = "PARKED" /\ car.pos = car.homePos /\ car.velocity = Vec(0, 0)

(* C11: a DRIVING car that is not frozen and re-evaluates at a tile centre  *)
(* where no flow other than the reverse of its heading is valid is, after   *)
(* that tick, PARKED at exactly homePos with zero velocity, whatever the    *)
(* draws of the tick; a tick that ends the round before the car loop does   *)
(* not re-evaluate the car.                                                 *)
C11_DeadEndParks ==
    [][ \A i \in 1 .. Len(s.cars) :
          (Ticked /\ DeadEnd(s, i) /\ ~s'.isGameOver) => AtHome(s'.cars[i]) ]_vars

\* the car that was sent out in the first tick is back home: it has driven
\* down the first band to the bottom row of the map, where no flow is valid
C11_Witness ==
    /\ InTraffic(s) /\ frames > 1
    /\ AtHome(s.cars[1])
    /\ ~s.isGameOver

\* the tile under the centre of the car's box
CentreTile(car) == <<CarCenter(car).x \div TILE, CarCenter(car).y \div TILE>>

OnTrack(car, map) ==
    /\ InMap(CentreTile(car)[1], CentreTile(car)[2])
    /\ map[CentreTile(car)[2]][CentreTile(car)[1]] \in {"ROAD", "DRIVEWAY"}

(* C12: in every state every car that is not PARKED has the centre of its   *)
(* box on a ROAD or DRIVEWAY tile inside the map.                           *)
C12_CarsOnTrack ==
    \A i \in 1 .. Len(s.cars) : s.cars[i].state # "PARKED" => OnTrack(s.cars[i], s.map)

\* the state changes the car loop and activateCar can make
CarMoves ==
    { <<"PARKED", "MERGING">>, <<"MERGING", "DRIVING">>, <<"DRIVING", "RETURNING">>,
      <<"DRIVING", "PARKED">>, <<"RETURNING", "PARKED">> }

(* C23: in every tick each car keeps its state or changes it along          *)
(* PARKED->MERGING, MERGING->DRIVING, DRIVING->RETURNING, DRIVING->PARKED   *)
(* or RETURNING->PARKED, and the list of cars and every car's homePos stay  *)
(* as they are.                                                             *)
C23_CarLifecycle ==
    [][ Ticked =>
          /\ Len(s'.cars) = Len(s.cars)
          /\ \A i \in 1 .. Len(s.cars) :
                /\ s'.cars[i].homePos = s.cars[i].homePos
                /\ \/ s'.cars[i].state = s.cars[i].state
                   \/ <<s.cars[i].state, s'.cars[i].state>> \in CarMoves ]_vars

\* a car has gone PARKED, MERGING, DRIVING and peeled off to RETURNING
C23_Witness ==
    \E i \in 1 .. Len(s.cars) :
        s.cars[i].state = "RETURNING" /\ s.cars[i].pos # s.cars[i].homePos

---------------------------------------------------------------------------
(* SpecRoad: the player meets a car on the road.  The city has no puddle;   *)
(* the car of the first house is sent out in the first tick, crosses its    *)
(* block and reaches the lower road below the driveway of the house         *)
(* opposite, where it may peel off into that driveway.  The player walks    *)
(* up the first band and right along the lower road to the tile before      *)
(* that spot, waits there, and may step right into the car's way once the   *)
(* car is close.  A TRAFFIC_LIGHT may spawn under the waiting player while  *)
(* the car is close and no traffic pause is on.                             *)

RoadFrames == 175            \* frames followed on the road
WAIT_X == 210                \* where the player waits: x, in px
WAIT_Y == 770                \* where the player waits: y, in px
STEP_X == 222                \* how far right the player steps from there, in px

WaitTile == <<WAIT_X \div TILE_SIZE, WAIT_Y \div TILE_SIZE>>

RoadCity == City(1, {}, 0, << >>, {1})

CarClose(st) ==
    \E i \in 1 .. Len(st.cars) :
        /\ st.cars[i].state # "PARKED"
        /\ DistanceLess(st.cars[i].pos, st.player.pos, Px(NEAR_PX))

Waiting(st) == st.player.pos = Vec(Px(WAIT_X), Px(WAIT_Y))

RoadProfile(st) ==
    [ spawnCar |-> {TRUE},
      spawnPup |-> IF Waiting(st) /\ CarClose(st) /\ st.trafficPauseTimer <= 0
                   THEN BOOLEAN ELSE {FALSE},
      pupKinds |-> {1}, pupTiles |-> {WaitTile}, maxPups |-> 1,
      maxFrames |-> RoadFrames ]

RoadInputs(st) ==
    IF st.player.pos.y > Px(WAIT_Y) THEN { Input(0, -InputOne, FALSE) }
    ELSE IF st.player.pos.x < Px(WAIT_X) THEN { Input(InputOne, 0, FALSE) }
    ELSE IF CarClose(st) /\ st.player.pos.x < Px(STEP_X)
    THEN { Input(0, 0, FALSE), Input(InputOne, 0, FALSE) }
    ELSE { Input(0, 0, FALSE) }

InitRoad == Mounted(RoadCity, 0)

NextRoad == \E in \in RoadInputs(s) : Frame(DT_CLAMP_MS, in, RoadProfile(s))

SpecRoad == InitRoad /\ [][NextRoad]_vars

(* C13: in a tick that does not end by TIMEOUT, if after the car loop the   *)
(* player's box overlaps a car that is MERGING, DRIVING or RETURNING and    *)
(* was not frozen when the loop reached it, the player is not boosting and  *)
(* the invulnerability timer was at or below 0, then that tick took one     *)
(* heart and set the invulnerability timer to 2.0 s.                        *)
C13_AnyMovingCarHits ==
    [][ \A i \in 1 .. Len(s.cars) :
          ( /\ Ticked /\ gameOverReason' # "TIMEOUT"
            /\ s'.cars[i].state \in {"MERGING", "DRIVING", "RETURNING"}
            /\ s.cars[i].frozenTimer <= 0 /\ s.trafficPauseTimer <= 0
            /\ checkCollision(s'.player, s'.cars[i])
            /\ ~s'.player.isBoosting
            /\ s.player.invulnerabilityTimer <= 0 )
          => /\ s'.player.health = s.player.health - 1
             /\ s'.player.invulnerabilityTimer = INVULNERABILITY_S * MS ]_vars

\* the frozenTimer a car that was frozen at the start of tick has after it:
\* reduced by the delta; or set by a TRAFFIC_LIGHT picked up in the tick; or,
\* for a PARKED car sent out during a traffic pause, the pause timer reduced
\* by the delta
Cooled(i) ==
    IF s'.trafficPauseTimer > s.trafficPauseTimer THEN s'.trafficPauseTimer
    ELSE IF s.cars[i].state = "PARKED" /\ s'.cars[i].state = "MERGING"
            /\ s'.trafficPauseTimer > 0
    THEN s'.trafficPauseTimer - TickDt
    ELSE s.cars[i].frozenTimer - TickDt

AllFrozen(st) == \A j \in 1 .. Len(st.cars) : st.cars[j].frozenTimer > 0

(* C17: a car whose frozenTimer is above 0 when the car loop of a tick      *)
(* reaches it keeps its position and velocity and, unless it was PARKED and *)
(* sent out earlier in that tick, its state and direction; its frozenTimer  *)
(* goes down by the tick's delta.  In a tick in which every car is frozen   *)
(* and the player is on no puddle, the player loses no health.              *)
C17_FrozenCarsRest ==
    [][ Ticked =>
          /\ \A i \in 1 .. Len(s.cars) :
                (s.cars[i].frozenTimer > 0 /\ ~s'.isGameOver) =>
                   /\ s'.cars[i].pos = s.cars[i].pos
                   /\ s'.cars[i].velocity = s.cars[i].velocity
                   /\ s.cars[i].state # "PARKED" =>
                         /\ s'.cars[i].state = s.cars[i].state
                         /\ s'.cars[i].direction = s.cars[i].direction
                   /\ s'.cars[i].frozenTimer = Cooled(i)
          /\ (AllFrozen(s) /\ ~InPuddle(s'.player, s'))
                => s'.player.health >= s.player.health ]_vars

\* the player stands in a frozen car that has been cooling for two ticks or
\* more, with no invulnerability left
C17_Witness ==
    \E i \in 1 .. Len(s.cars) :
        /\ s.cars[i].state # "PARKED"
        /\ s.cars[i].frozenTimer > 0
        /\ s.cars[i].frozenTimer <= TRAFFIC_FREEZE_S * MS - 2 * DT_CLAMP_MS
        /\ checkCollision(s.player, s.cars[i])
        /\ s.player.invulnerabilityTimer <= 0
        /\ ~s.isGameOver

---------------------------------------------------------------------------
(* SpecRain: a puddle where the car comes down.  The city of SpecRoad with  *)
(* a puddle on the road tile to the right of the waiting player, which is   *)
(* the tile the car reaches the road on.  Once the car is within reach,     *)
(* the player may step right into the puddle and the car's way, with or    *)
(* without dash; while the car is still coming down its column, COFFEE and  *)
(* RAINCOAT may spawn under the waiting player.                             *)

RainFrames == 142            \* frames followed in the rain
REACH_PX == 30               \* a car this close to the player is within reach

PuddleTile == <<WaitTile[1] + 1, WaitTile[2]>>

RainCity == City(1, {}, 0, <<Puddle(PuddleTile, 15, 12)>>, {1})

CarReach(st) ==
    \E i \in 1 .. Len(st.cars) :
        /\ st.cars[i].state # "PARKED"
        /\ DistanceLess(st.cars[i].pos, st.player.pos, Px(REACH_PX))

\* the car within reach is still coming down its column
CarComing(st) ==
    \E i \in 1 .. Len(st.cars) :
        /\ st.cars[i].state = "MERGING"
        /\ DistanceLess(st.cars[i].pos, st.player.pos, Px(REACH_PX))

RainProfile(st) ==
    [ spawnCar |-> {TRUE},
      spawnPup |-> IF Waiting(st) /\ CarComing(st) THEN BOOLEAN ELSE {FALSE},
      pupKinds |-> {0, 3}, pupTiles |-> {WaitTile}, maxPups |-> 1,
      maxFrames |-> RainFrames ]

RainInputs(st) ==
    IF st.player.pos.y > Px(WAIT_Y) THEN { Input(0, -InputOne, FALSE) }
    ELSE IF st.player.pos.x < Px(WAIT_X) THEN { Input(InputOne, 0, FALSE) }
    ELSE IF CarReach(st) /\ st.player.pos.x < Px(STEP_X)
    THEN { Input(0, 0, FALSE), Input(InputOne, 0, FALSE), Input(InputOne, 0, TRUE) }
    ELSE { Input(0, 0, FALSE) }

InitRain == Mounted(RainCity, 0)

NextRain == \E in \in RainInputs(s) : Frame(DT_CLAMP_MS, in, RainProfile(s))

SpecRain == InitRain /\ [][NextRain]_vars

\* the puddle check of this tick finds the player in a puddle, not boosting,
\* without puddle immunity and not invulnerable
WetAtCheck ==
    /\ InPuddle(s'.player, s') /\ ~s'.player.isBoosting
    /\ s.player.puddleImmunity <= 0 /\ s.player.invulnerabilityTimer <= 0

\* a car that ends the tick MERGING or DRIVING, was not frozen, and overlaps
\* the player
LiveCarOn ==
    \E i \in 1 .. Len(s.cars) :
        /\ s'.cars[i].state \in {"MERGING", "DRIVING"}
        /\ s.cars[i].frozenTimer <= 0 /\ s.trafficPauseTimer <= 0
        /\ checkCollision(s'.player, s'.cars[i])

(* C18: in a tick that does not end by TIMEOUT the puddle takes a heart     *)
(* exactly if the check finds the player in a puddle, not boosting, with    *)
(* puddleImmunity <= 0 and invulnerabilityTimer <= 0: then health drops by  *)
(* 1 and the invulnerability timer is 2.0 s less the delta (2.0 s if the    *)
(* hit was the last).  Otherwise a tick that lowers health is a car's hit,  *)
(* which leaves the timer at 2.0 s; and with puddle immunity running, a     *)
(* MERGING or DRIVING car on the player, who is neither boosting nor        *)
(* invulnerable, does take a heart.                                         *)
C18_PuddleHit ==
    [][ (Ticked /\ gameOverReason' # "TIMEOUT") =>
          /\ WetAtCheck =>
                /\ s'.player.health = s.player.health - 1
                /\ s'.player.invulnerabilityTimer =
                      IF s'.isGameOver THEN INVULNERABILITY_S * MS
                      ELSE INVULNERABILITY_S * MS - TickDt
          /\ (~WetAtCheck /\ s'.player.health < s.player.health) =>
                /\ LiveCarOn
                /\ s'.player.invulnerabilityTimer = INVULNERABILITY_S * MS
          /\ ( /\ s.player.puddleImmunity > 0 /\ LiveCarOn
               /\ ~s'.player.isBoosting /\ s.player.invulnerabilityTimer <= 0 ) =>
                s'.player.health = s.player.health - 1 ]_vars

\* the player stands in the puddle with the raincoat on, and a car has just
\* taken a heart
C18_Witness ==
    /\ InPuddle(s.player, s) /\ s.player.puddleImmunity > 0
    /\ s.player.health < START_HEALTH
    /\ s.player.invulnerabilityTimer = INVULNERABILITY_S * MS
    /\ ~s.isGameOver

---------------------------------------------------------------------------
(* SpecStall: smooth, slow and stalled frames.  The loop callback comes     *)
(* 16 ms, 100 ms or 2.1 s after the last one, the player may pause and      *)
(* resume, and CLOCK power-ups may spawn on the start tile.  The round      *)
(* starts on the puddle of the puddle city, or in a city without puddles,   *)
(* fresh or idled down to its last 16 ms.                                   *)

StallFrames == 3
SMOOTH_MS == 16              \* a frame at 60 Hz
STALL_MS == 2100             \* a stalled frame: 2.1 s
LAST_MS == 16                \* the timer left in the late round: 0.016 s

StallGaps == {SMOOTH_MS, DT_CLAMP_MS, STALL_MS}

LateCity == City(1, {}, 0, << >>, {})

StallProfile ==
    [ spawnCar |-> {FALSE}, spawnPup |-> BOOLEAN, pupKinds |-> {2},
      pupTiles |-> {StartTile}, maxPups |-> 1, maxFrames |-> StallFrames ]

StallInputs == { Input(0, 0, FALSE), Input(InputOne, 0, FALSE) }

InitStall ==
    \/ Mounted(PuddleCity, 0)
    \/ \E idle \in {0, INITIAL_TIME * MS - LAST_MS} : Mounted(LateCity, idle)

NextStall ==
    \/ \E gap \in StallGaps, in \in StallInputs : Frame(gap, in, StallProfile)
    \/ TogglePause

SpecStall == InitStall /\ [][NextStall]_vars

(* C4: 0 <= timer <= INITIAL_TIME in every state of a round, the state      *)
(* left by the tick that ends the round by timeout included.                *)
C4_TimerInRange == s.isPlaying => (0 <= s.timer /\ s.timer <= INITIAL_TIME * MS)

\* the second of two ticks on a puddle: the player has not moved and nothing
\* shields them, the first tick took a heart, this callback comes 2.1 s later
StalledOnPuddle ==
    /\ Ticked
    /\ frames = 1
    /\ s.player.health = START_HEALTH - 1
    /\ now' - lastTime = STALL_MS
    /\ s'.player.pos = s.player.pos
    /\ InPuddle(s.player, s)
    /\ ~s.player.isBoosting /\ ~s'.player.isBoosting
    /\ s.player.puddleImmunity <= 0

(* C9 as stated: with the player motionless on a puddle from health 3, a    *)
(* first tick and a second tick 2.1 s of wall-clock time later leave        *)
(* health decreased by exactly 2.                                           *)
C9_TwoHearts == [][ StalledOnPuddle => s'.player.health = START_HEALTH - 2 ]_vars

(* C9 amended: the two ticks leave health decreased by exactly 1.  The      *)
(* second tick reads the invulnerability timer before reducing it, so it    *)
(* still finds the 2.0 s of the first tick less that tick's delta, and it   *)
(* reduces the timer by its own clamped delta of at most 0.1 s.             *)
C9_OneHeart ==
    [][ StalledOnPuddle =>
          /\ s'.player.health = START_HEALTH - 1
          /\ s.player.invulnerabilityTimer > 0
          /\ s'.player.invulnerabilityTimer =
                s.player.invulnerabilityTimer - DT_CLAMP_MS
      ]_vars

\* two stalled frames on the puddle
C9_Witness ==
    /\ frames = 2
    /\ now = 2 * STALL_MS
    /\ s.player.pos = StartPos(s.map)
    /\ InPuddle(s.player, s)
    /\ s.player.health = START_HEALTH - 1
    /\ s.player.invulnerabilityTimer = INVULNERABILITY_S * MS - 2 * DT_CLAMP_MS

\* update called once more on state st
LaterTick(st, dt) ==
    update([ s |-> st, reason |-> gameOverReason', prevDash |-> prevDash',
             done |-> FALSE, hung |-> FALSE, emitted |-> FALSE ],
           [ dt |-> dt, x |-> InputOne, y |-> 0, dash |-> TRUE, now |-> now' + dt ],
           [ spawnCar |-> TRUE, spawnPick |-> 0, spawnPup |-> TRUE, pupKind |-> 2,
             pupTile |-> StartTile, nextHouse |-> 0, deliveryPick |-> 0,
             car |-> << >> ])

(* C10: a tick with delta 0.1 s on a round with timer 0.016 s ends the      *)
(* round with reason TIMEOUT; and game over is absorbing: the loop asks     *)
(* for no further callback, and update called on the round again leaves     *)
(* the whole round state as it is.                                          *)
C10_TimeoutAbsorbs ==
    [][ /\ ( Ticked /\ s.timer = LAST_MS /\ TickDt = DT_CLAMP_MS ) =>
              /\ s'.isGameOver
              /\ gameOverReason' = "TIMEOUT"
              /\ gameOverCalls' = <<[score |-> s.score, reason |-> "TIMEOUT"]>>
        /\ s'.isGameOver =>
              /\ ~rafPending'
              /\ \A dt \in {SMOOTH_MS, DT_CLAMP_MS} : LaterTick(s', dt).s = s'
        /\ s.isGameOver => (s' = s /\ gameOverReason' = gameOverReason)
      ]_vars

\* the round timed out in its first tick
C10_Witness ==
    /\ frames = 1
    /\ s.isGameOver
    /\ gameOverReason = "TIMEOUT"
    /\ s.timer = LAST_MS - DT_CLAMP_MS
    /\ ~rafPending


(* C14: a loop callback that runs while isPaused is true, and a flip of    *)
(* the pause switch in either direction, leave the whole round state as it  *)
(* was (timers, score, health, positions, cars, power-ups, map), emit no    *)
(* snapshot and keep the dash edge and the game-over reason.                *)
C14_PauseFreezes ==
    [][ (isPaused \/ isPaused' # isPaused)
        => /\ s' = s /\ snapshot' = snapshot
           /\ gameOverReason' = gameOverReason /\ prevDash' = prevDash ]_vars

\* three callbacks have run and the round has resumed, but only one of them
\* ticked: the other two came while the game was paused
C14_Witness ==
    /\ ~isPaused /\ frames = StallFrames /\ ~s.isGameOver
    /\ s.timer = INITIAL_TIME * MS - SMOOTH_MS

---------------------------------------------------------------------------
(* SpecOver: rounds played to their end.  The player stands on the puddle   *)
(* of the puddle city until the last heart is gone, or in the late city     *)
(* until the timer runs out.  The game may be paused and resumed while the  *)
(* round is on, and the isPaused prop may change after the round has ended. *)

OverFrames == 46             \* loop callbacks followed: 43 ticks take three hearts

OverProfile ==
    [ spawnCar |-> {FALSE}, spawnPup |-> {FALSE}, pupKinds |-> {}, pupTiles |-> {},
      maxPups |-> 0, maxFrames |-> OverFrames ]

InitOver ==
    \/ Mounted(PuddleCity, 0)
    \/ Mounted(LateCity, INITIAL_TIME * MS - LAST_MS)

NextOver ==
    \/ Frame(DT_CLAMP_MS, Input(0, 0, FALSE), OverProfile)
    \/ TogglePause
    \/ EffectRerun

SpecOver == InitOver /\ [][NextOver]_vars

(* C15: onGameOver has been called at most once; it has been called exactly *)
(* when the round is over; its finalScore is the score of the ended round;  *)
(* its reason is TIMEOUT exactly if the timer ran out and HEALTH exactly if *)
(* health reached 0.  Callbacks that run after the round has ended, the     *)
(* ones requested by a re-run of the loop effect included, add no call.     *)
C15_GameOverOnce ==
    /\ Len(gameOverCalls) <= 1
    /\ (gameOverCalls # << >>) <=> s.isGameOver
    /\ \A k \in 1 .. Len(gameOverCalls) :
          /\ gameOverCalls[k].score = s.score
          /\ gameOverCalls[k].reason \in {"TIMEOUT", "HEALTH"}
          /\ gameOverCalls[k].reason = "TIMEOUT" <=> s.timer <= 0
          /\ gameOverCalls[k].reason = "HEALTH" <=> s.player.health <= 0

\* the round ended by HEALTH, the prop changed afterwards and the callback
\* that the re-run requested has run
C15_Witness ==
    /\ Len(gameOverCalls) = 1 /\ gameOverCalls[1].reason = "HEALTH"
    /\ isPaused /\ ~rafPending

(* C16: every tick of a round that is on, the tick that takes the last     *)
(* heart and the tick in which the timer runs out included, emits a         *)
(* snapshot that carries the score, timer, health, buff timers and boost    *)
(* charge the tick leaves behind.                                           *)
C16_SnapshotEveryTick == [][ Ticked => snapshot' = <<Snapshot(s')>> ]_vars

---------------------------------------------------------------------------
(* SpecFlow: getTrafficFlow on its own.  The road lists are the ones        *)
(* addLines builds for a city of the program's size from gap draws 0, 2 and *)
(* 4; the function is called once, for any tile of that city.               *)

CITY_WIDTH == 40             \* the program's MAP_WIDTH
CITY_HEIGHT == 30            \* the program's MAP_HEIGHT

FlowGaps == {0, 2, 4}

FlowRoads(max) == { addLines(<<2, max>>, max, 10, <<a, b>>) : a, b \in FlowGaps }

InitFlow ==
    \E vRoads \in FlowRoads(CITY_WIDTH - 4), hRoads \in FlowRoads(CITY_HEIGHT - 4) :
        Alone([fn |-> "getTrafficFlow", args |-> <<vRoads, hRoads>>, out |-> << >>])

CallTrafficFlow ==
    /\ probe.fn = "getTrafficFlow" /\ Len(probe.args) = 2
    /\ \E tx \in 0 .. (CITY_WIDTH - 1), ty \in 0 .. (CITY_HEIGHT - 1) :
          probe' = [ fn |-> probe.fn,
                     args |-> <<tx, ty, probe.args[1], probe.args[2]>>,
                     out |-> getTrafficFlow(tx, ty, probe.args[1], probe.args[2]) ]
    /\ UNCHANGED <<s, gameOverReason, gameOverSent, prevDash, isPaused, now, lastTime,
                   rafPending, hung, snapshot, gameOverCalls, frames, v1>>

NextFlow == CallTrafficFlow

SpecFlow == InitFlow /\ [][NextFlow]_vars

\* the bands of a road list that tile coordinate t lies in
BandsOf(roads, t) == { i \in 1 .. Len(roads) : t = roads[i] \/ t = roads[i] + 1 }

Rising(roads) == \A i \in 1 .. (Len(roads) - 1) : roads[i] < roads[i + 1]

\* the flow of the bands in B (at most one), by the parity of the band's
\* index counted from 0: first if even, second if odd
FlowBy(B, first, second) ==
    IF B = {} THEN << >>
    ELSE IF \E i \in B : (i - 1) % 2 = 0 THEN <<first>> ELSE <<second>>

FlowRule(tx, ty, vRoads, hRoads, flows) ==
    /\ Rising(vRoads) /\ Rising(hRoads)
    /\ Cardinality(BandsOf(vRoads, tx)) <= 1
    /\ Cardinality(BandsOf(hRoads, ty)) <= 1
    /\ flows = FlowBy(BandsOf(vRoads, tx),
                      [x |-> 0, y |-> 1, d |-> "down"], [x |-> 0, y |-> -1, d |-> "up"])
                \o
                FlowBy(BandsOf(hRoads, ty),
                       [x |-> -1, y |-> 0, d |-> "left"], [x |-> 1, y |-> 0, d |-> "right"])

(* C19: the road lists are in increasing order and a tile lies in at most   *)
(* one band of each; getTrafficFlow returns, for a tile in the vertical     *)
(* band of index i (from 0), one vertical flow, down if i is even and up if *)
(* i is odd; for a tile in the horizontal band of index j, one horizontal   *)
(* flow, left if j is even and right if j is odd; both, the vertical one    *)
(* first, on an intersection; none off the bands.  The flow depends on the  *)
(* band only, so both tiles of a band get the same.                         *)
C19_FlowParity ==
    Len(probe.args) = 4 =>
        FlowRule(probe.args[1], probe.args[2], probe.args[3], probe.args[4], probe.out)

\* an intersection of two odd bands: up and right
C19_Witness ==
    /\ Len(probe.args) = 4 /\ Len(probe.out) = 2
    /\ probe.out[1].d = "up" /\ probe.out[2].d = "right"

---------------------------------------------------------------------------
(* SpecStart: the first steps of a round.  Every city the road-gap draw     *)
(* can give, with and without a car, or the earlier variant; the player     *)
(* then moves in any direction for a few callbacks.                         *)

StartFrames == 3             \* loop callbacks followed from the start

StartProfile ==
    [ spawnCar |-> {FALSE}, spawnPup |-> {FALSE}, pupKinds |-> {}, pupTiles |-> {},
      maxPups |-> 0, maxFrames |-> StartFrames ]

StartInputs ==
    { Input(0, 0, FALSE), Input(InputOne, 0, FALSE), Input(-InputOne, 0, FALSE),
      Input(0, InputOne, FALSE), Input(0, -InputOne, FALSE) }

InitStart ==
    \/ \E hGap \in 0 .. 4, cars \in {{}, {1}} : Mounted(City(hGap, {}, 0, << >>, cars), 0)
    \/ MountedV1

NextStart ==
    \/ \E in \in StartInputs : Frame(DT_CLAMP_MS, in, StartProfile)
    \/ \E near \in BOOLEAN : FrameV1(DT_CLAMP_MS, near, FALSE)

SpecStart == InitStart /\ [][NextStart]_vars

\* a round of the earlier variant has just been generated
FreshV1 == v1.isPlaying /\ frames = 0

\* a round of the current variant has just been generated
Fresh == s.isPlaying /\ frames = 0

(* C20: in both variants the start box that city generation gives the       *)
(* player lies entirely on ROAD tiles inside the map: it passes isWalkable. *)
C20_StartOnRoad ==
    /\ Fresh => isWalkable(s.player.pos, s.player.size, s.map)
    /\ FreshV1 => isWalkable(v1.pos, v1.size, RoadsV1)

\* the box moved up by one step of PLAYER_SPEED
StepUp(pos) == Vec(pos.x, pos.y - Px(PLAYER_SPEED))

(* C20, amended: the current variant's start box (14 x 14 px, 10 px into    *)
(* the tile) passes isWalkable.  The earlier variant's start box (12 x 24   *)
(* px, 10 px into the tile) has its upper corners on the ROAD tile and its  *)
(* lower corners 2 px into the row below, which holds no ROAD: it fails     *)
(* isWalkable, and the same box one step of 4 px higher passes it.          *)
C20_StartBoxes ==
    /\ Fresh => isWalkable(s.player.pos, s.player.size, s.map)
    /\ FreshV1 =>
          /\ OnRoad(v1.pos, RoadsV1)
          /\ OnRoad(Vec(v1.pos.x + v1.size.x - Px(1), v1.pos.y), RoadsV1)
          /\ ~OnRoad(Vec(v1.pos.x, v1.pos.y + v1.size.y - Px(1)), RoadsV1)
          /\ OnRoad(Vec(v1.pos.x, v1.pos.y + v1.size.y - Px(3)), RoadsV1)
          /\ isWalkable(StepUp(v1.pos), v1.size, RoadsV1)

\* the earlier variant's round starts with the box over the edge of the road
C20_Witness == FreshV1 /\ ~isWalkable(v1.pos, v1.size, RoadsV1)

---------------------------------------------------------------------------
(* SpecRestart: a round is played to its end and the game is started again. *)
(* The first round is the one of the puddle city, where the player stands   *)
(* in the puddle or steps right and COFFEE may spawn there, or the late     *)
(* city's last 16 ms; the second round is played in either city.            *)

RestartFrames == 50          \* loop callbacks followed over both rounds

RestartProfile ==
    [ spawnCar |-> {FALSE}, spawnPup |-> BOOLEAN, pupKinds |-> {0},
      pupTiles |-> {RightTile}, maxPups |-> 1, maxFrames |-> RestartFrames ]

InitRestart ==
    \/ Mounted(PuddleCity, 0)
    \/ Mounted(LateCity, INITIAL_TIME * MS - LAST_MS)

NextRestart ==
    \/ \E in \in StallInputs : Frame(DT_CLAMP_MS, in, RestartProfile)
    \/ \E g \in {PuddleCity, LateCity} : Restart(g, RestartFrames)

SpecRestart == InitRestart /\ [][NextRestart]_vars

\* the values a round starts with
FreshRound(st) ==
    /\ st.isPlaying /\ ~st.isGameOver
    /\ st.score = 0 /\ st.timer = INITIAL_TIME * MS
    /\ st.player.health = START_HEALTH /\ st.player.maxHealth = START_HEALTH
    /\ st.player.boostCharge = 0 /\ ~st.player.boostUnlocked /\ ~st.player.isBoosting
    /\ st.player.puddleImmunity = 0 /\ st.player.invulnerabilityTimer = 0
    /\ st.trafficPauseTimer = 0 /\ st.powerups = << >>

(* C21: a round that has just been created, on the first mount or by a      *)
(* restart after a finished round, reads isPlaying, not isGameOver, score   *)
(* 0, timer 150 s, health 3 = maxHealth, boostCharge 0, boost locked and    *)
(* off, puddleImmunity 0, invulnerabilityTimer 0, trafficPauseTimer 0 and   *)
(* no power-ups, whatever state the round before ended in.                  *)
C21_FreshRound ==
    /\ (now = 0 /\ frames = 0) => FreshRound(s)
    /\ [][ (gameOverCalls # << >> /\ gameOverCalls' = << >>) => FreshRound(s') ]_vars

\* a second round has just been created after one that ended
C21_Witness ==
    /\ gameOverCalls = << >> /\ s.lastDeliveryTime > 0 /\ FreshRound(s)

---------------------------------------------------------------------------
(* SpecGap: every timer under smooth, slow and stalled frames.  The traffic *)
(* city with its car left parked; TRAFFIC_LIGHT and RAINCOAT may spawn on   *)
(* the start tile, and the player may walk right into the puddle.           *)

GapFrames == 5               \* loop callbacks followed

GapProfile ==
    [ spawnCar |-> {FALSE}, spawnPup |-> BOOLEAN, pupKinds |-> {1, 3},
      pupTiles |-> {StartTile}, maxPups |-> 1, maxFrames |-> GapFrames ]

InitGap == Mounted(TrafficCity, 0)

NextGap == \E gap \in StallGaps, in \in StallInputs : Frame(gap, in, GapProfile)

SpecGap == InitGap /\ [][NextGap]_vars

\* the most a timer may run down in this callback: the frame gap, at most 0.1 s
MostDt == IF now' - lastTime < DT_CLAMP_MS THEN now' - lastTime ELSE DT_CLAMP_MS

\* a power-up of the new state is one spawned in this tick, or one of the old
\* state that has aged by no more than d
AgedBy(pup, d) ==
    \/ pup.life >= POWERUP_LIFE_S * MS - d
    \/ \E i \in 1 .. Len(s.powerups) :
          /\ s.powerups[i].kind = pup.kind /\ s.powerups[i].pos = pup.pos
          /\ s.powerups[i].life - pup.life <= d

(* C22: in every tick the round timer runs down by exactly min(frame gap,   *)
(* 0.1 s) unless a bonus raised it, and neither the invulnerability timer,  *)
(* the puddle immunity, the traffic pause timer, a car's frozenTimer nor a  *)
(* power-up's lifetime runs down by more than that, however long the gap.   *)
C22_DeltaClamped ==
    [][ Ticked =>
          /\ s'.timer = s.timer - MostDt \/ s'.timer >= s.timer
          /\ s.player.invulnerabilityTimer - s'.player.invulnerabilityTimer <= MostDt
          /\ s.player.puddleImmunity - s'.player.puddleImmunity <= MostDt
          /\ s.trafficPauseTimer - s'.trafficPauseTimer <= MostDt
          /\ \A i \in 1 .. Len(s.cars) :
                s.cars[i].frozenTimer - s'.cars[i].frozenTimer <= MostDt
          /\ \A j \in 1 .. Len(s'.powerups) : AgedBy(s'.powerups[j], MostDt) ]_vars

\* two stalled frames: the second found the cars frozen and the raincoat or
\* the traffic pause running, and took 0.1 s off each
C22_Witness ==
    /\ frames = 2 /\ now = 2 * STALL_MS
    /\ s.timer = INITIAL_TIME * MS - 2 * DT_CLAMP_MS
    /\ s.trafficPauseTimer = TRAFFIC_FREEZE_S * MS - DT_CLAMP_MS
    /\ \E i \in 1 .. Len(s.cars) :
          s.cars[i].frozenTimer = TRAFFIC_FREEZE_S * MS - DT_CLAMP_MS

---------------------------------------------------------------------------
(* SpecPause: a whole traffic pause.  The player stands on the start tile   *)
(* of the traffic city; a TRAFFIC_LIGHT spawns under the bike in the first  *)
(* tick and is picked up at once.  The parked car may be sent out by the    *)
(* spawn roll in any tick of the pause.  Frames are slow (0.1 s apart)      *)
(* until the pause is about to run out, then slow or smooth.                *)

PauseFrames == 104           \* loop callbacks followed
PAUSE_END_MS == 300          \* what is left of the pause when frames may turn smooth

PauseProfile(st) ==
    [ spawnCar |-> IF st.trafficPauseTimer > 0 THEN BOOLEAN ELSE {FALSE},
      spawnPup |-> {st.timer = INITIAL_TIME * MS},
      pupKinds |-> {1}, pupTiles |-> {StartTile}, maxPups |-> 1,
      maxFrames |-> PauseFrames ]

PauseGaps(st) ==
    IF st.trafficPauseTimer > 0 /\ st.trafficPauseTimer <= PAUSE_END_MS
    THEN {SMOOTH_MS, DT_CLAMP_MS} ELSE {DT_CLAMP_MS}

InitPause == Mounted(TrafficCity, 0)

NextPause == \E gap \in PauseGaps(s) : Frame(gap, Input(0, 0, FALSE), PauseProfile(s))

SpecPause == InitPause /\ [][NextPause]_vars

(* C25: in every tick that starts and ends with trafficPauseTimer > 0 no    *)
(* car changes position, the cars sent out during the pause included.       *)
C25_PausedCarsRest ==
    [][ (Ticked /\ s.trafficPauseTimer > 0 /\ s'.trafficPauseTimer > 0) =>
          \A i \in 1 .. Len(s.cars) : s'.cars[i].pos = s.cars[i].pos ]_vars

---------------------------------------------------------------------------
(* SpecSend: the cars a delivery sends out.  A city of four houses with the *)
(* third as the first target and one or three parked cars.  The spawn roll *)
(* may succeed in the first tick and fails in every later one, so that      *)
(* afterwards a car leaves only by a delivery.  The player walks up and     *)
(* right to the door of the target.                                         *)

SendFrames == 30             \* loop callbacks followed

SendProfile(st) ==
    [ spawnCar |-> IF st.timer = INITIAL_TIME * MS THEN BOOLEAN ELSE {FALSE},
      spawnPup |-> {FALSE}, pupKinds |-> {0},
      pupTiles |-> {}, maxPups |-> 0, maxFrames |-> SendFrames ]

SendInputs == { Input(InputOne, -InputOne, FALSE), Input(InputOne, 0, FALSE) }

InitSend == \E cars \in {{1}, {1, 2, 3}} : Mounted(City(1, {}, 2, << >>, cars), 0)

NextSend == \E in \in SendInputs : Frame(DT_CLAMP_MS, in, SendProfile(s))

SpecSend == InitSend /\ [][NextSend]_vars

ParkedCars(st) == { i \in 1 .. Len(st.cars) : st.cars[i].state = "PARKED" }

\* the cars that were PARKED before this tick and are not after it
SentOut == { i \in ParkedCars(s) : s'.cars[i].state # "PARKED" }

(* C26: a tick with a delivery (and a failed spawn roll) that finds a       *)
(* PARKED car turns exactly one PARKED car to MERGING and leaves the other  *)
(* PARKED cars parked; one that finds no PARKED car turns no car to         *)
(* MERGING.                                                                 *)
C26_DeliverySendsOne ==
    [][ (Ticked /\ s'.deliveries = s.deliveries + 1 /\ ~hung') =>
          /\ ParkedCars(s) # {} =>
                /\ Cardinality(SentOut) = 1
                /\ \A i \in SentOut : s'.cars[i].state = "MERGING"
          /\ ParkedCars(s) = {} =>
                \A i \in 1 .. Len(s.cars) :
                    s'.cars[i].state = "MERGING" => s.cars[i].state = "MERGING" ]_vars

\* the tick of the first delivery in the city of three cars, one of which
\* had left in the first tick: a second car is out, the third is still PARKED
C26_Witness ==
    /\ s.deliveries = 1 /\ s.lastDeliveryTime = now
    /\ Len(s.cars) = 3
    /\ Cardinality(ParkedCars(s)) = 1
    /\ \E i \in 1 .. Len(s.cars) : s.cars[i].state = "MERGING"

---------------------------------------------------------------------------
(* SpecLast: the last seconds of a round in the traffic city.  The round    *)
(* has idled down to its last 4.4 s or 4.5 s; the car is sent out in the    *)
(* first tick, the player steps right into the puddle and stays there, so   *)
(* that the 44th tick either takes the last heart or runs the timer out.    *)
(* In the last two ticks the player may also move and dash, and COFFEE may  *)
(* spawn on the start tile.                                                 *)

LastFrames == 46             \* loop callbacks followed
LEFT_MS == 4400              \* the shorter of the two times left: 44 ticks of 0.1 s
PUDDLE_X == 90               \* where the player stops: 4 steps right of the start

LastProfile(st) ==
    [ spawnCar |-> {TRUE},
      spawnPup |-> IF st.timer <= 2 * DT_CLAMP_MS THEN BOOLEAN ELSE {FALSE},
      pupKinds |-> {0}, pupTiles |-> {StartTile}, maxPups |-> 1,
      maxFrames |-> LastFrames ]

LastInputs(st) ==
    IF st.player.pos.x < Px(PUDDLE_X) THEN { Input(InputOne, 0, FALSE) }
    ELSE IF st.timer <= 2 * DT_CLAMP_MS
    THEN { Input(0, 0, FALSE), Input(InputOne, 0, TRUE), Input(-InputOne, 0, FALSE) }
    ELSE { Input(0, 0, FALSE) }

InitLast ==
    \E left \in {LEFT_MS, LEFT_MS + DT_CLAMP_MS} :
        Mounted(TrafficCity, INITIAL_TIME * MS - left)

NextLast ==
    \/ \E in \in LastInputs(s) : Frame(DT_CLAMP_MS, in, LastProfile(s))
    \/ EffectRerun

SpecLast == InitLast /\ [][NextLast]_vars

(* C27: once the reason of the end of the round is set it never changes;    *)
(* and a tick whose timer decrement brings the timer to 0 or below ends the *)
(* round with TIMEOUT and leaves the whole round state as it was but for    *)
(* the timer and isGameOver: no movement, damage, delivery, car motion,     *)
(* spawn or pickup.                                                         *)
C27_TimeoutFirst ==
    [][ /\ gameOverReason # "" => gameOverReason' = gameOverReason
        /\ (Ticked /\ s.timer - MostDt <= 0) =>
              /\ gameOverReason' = "TIMEOUT"
              /\ s' = [s EXCEPT !.timer = @ - MostDt, !.isGameOver = TRUE] ]_vars

\* the timer ran out in the tick that would have taken the last heart: the
\* player is in the puddle, unshielded, with one heart, and the car is out
C27_Witness ==
    /\ gameOverReason = "TIMEOUT" /\ s.isGameOver
    /\ s.player.health = 1
    /\ InPuddle(s.player, s)
    /\ s.player.invulnerabilityTimer <= 0 /\ s.player.puddleImmunity <= 0
    /\ \E i \in 1 .. Len(s.cars) : s.cars[i].state = "MERGING"

---------------------------------------------------------------------------
(* SpecMerge: a car on its way to the road, to the end of the round.  The   *)
(* round has idled down to its last 25 s in a city without puddles in       *)
(* which only the first house (which faces up) or only the third (which     *)
(* faces down) has a car.  The spawn roll may send the car out in the first *)
(* 1.5 s or in the last second, a TRAFFIC_LIGHT may spawn under the bike in *)
(* the first tick, and the player stands still.  The browser keeps          *)
(* delivering the frames the loop asks for, 0.1 s apart, until the timer    *)
(* runs out.                                                                *)

MERGE_LEFT_MS == 25000       \* the time left on the timer
MERGE_NEED_MS == 14500       \* running time that takes any car across its block
SEND_EARLY_MS == 1500        \* the car may leave this early in the run
SEND_LATE_MS == 1000         \* or with this little left on the timer
MergeFrames == 252           \* loop callbacks followed: more than the round has left

MergeProfile(st) ==
    [ spawnCar |-> IF st.timer > MERGE_LEFT_MS - SEND_EARLY_MS \/ st.timer <= SEND_LATE_MS
                   THEN BOOLEAN ELSE {FALSE},
      spawnPup |-> IF st.timer = MERGE_LEFT_MS THEN BOOLEAN ELSE {FALSE},
      pupKinds |-> {1}, pupTiles |-> {StartTile}, maxPups |-> 1,
      maxFrames |-> MergeFrames ]

InitMerge ==
    \E car \in {1, 3} :
        Mounted(City(1, {}, 0, << >>, {car}), INITIAL_TIME * MS - MERGE_LEFT_MS)

NextMerge == Frame(DT_CLAMP_MS, Input(0, 0, FALSE), MergeProfile(s))

SpecMerge == InitMerge /\ [][NextMerge]_vars /\ WF_frames(FrameDue(MergeFrames))

\* the car (the only one of the city) is in state st
CarIs(st) == Len(s.cars) = 1 /\ s.cars[1].state = st

\* the velocity is that of one of the flows allowed on tile (tx, ty)
AlongFlow(car, tx, ty, vRoads, hRoads) ==
    \E k \in 1 .. Len(getTrafficFlow(tx, ty, vRoads, hRoads)) :
        /\ car.velocity.x = getTrafficFlow(tx, ty, vRoads, hRoads)[k].x * car.speed
        /\ car.velocity.y = getTrafficFlow(tx, ty, vRoads, hRoads)[k].y * car.speed

\* DRIVING on a ROAD tile, centred on it, with the velocity of an allowed flow
Merged(car, st) ==
    /\ car.state = "DRIVING"
    /\ InMap(CentreTile(car)[1], CentreTile(car)[2])
    /\ st.map[CentreTile(car)[2]][CentreTile(car)[1]] = "ROAD"
    /\ car.pos.x = CentreTile(car)[1] * TILE + (TILE - car.size.x) \div 2
    /\ car.pos.y = CentreTile(car)[2] * TILE + (TILE - car.size.y) \div 2
    /\ AlongFlow(car, CentreTile(car)[1], CentreTile(car)[2], st.vRoads, st.hRoads)

---------------------------------------------------------------------------
(* SpecEnd: whole rounds.  In the puddle city the player stands on the      *)
(* puddle and the frames come 16 ms apart.  In the other cities they come   *)
(* 0.1 s apart.  In the late city the player stands still for the whole     *)
(* round.                                                                   *)
(* In the delivery city the player walks up and right to the target's door, *)
(* delivers once, steps on to the next tile and stands still; a CLOCK may   *)
(* spawn under the bike                                                     *)
(* in the 500th and in the 1000th tick.  The browser keeps delivering the   *)
(* frames the loop asks for.                                                *)

EndFrames == 1750            \* loop callbacks followed: more than the longest round
CLOCK_AT_1 == 500            \* the ticks before which a CLOCK may spawn
CLOCK_AT_2 == 1000
STOP_X == 154                \* where the player stops after the delivery
StopTile == <<5, MAP_HEIGHT - 4>>

WalkCity == City(1, {}, 2, << >>, {})

Delivering(st) == st.houses # << >> /\ st.houses[3].isTarget /\ st.deliveries = 0

EndProfile(st) ==
    [ spawnCar |-> {FALSE},
      spawnPup |-> IF st.deliveries > 0 /\ frames \in {CLOCK_AT_1, CLOCK_AT_2}
                   THEN BOOLEAN ELSE {FALSE},
      pupKinds |-> {2}, pupTiles |-> {StopTile}, maxPups |-> 1,
      maxFrames |-> EndFrames ]

EndInputs(st) ==
    IF Delivering(st) THEN { Input(InputOne, -InputOne, FALSE) }
    ELSE IF st.deliveries > 0 /\ st.player.pos.x < Px(STOP_X) THEN { Input(InputOne, 0, FALSE) }
    ELSE { Input(0, 0, FALSE) }

EndGaps(st) == IF InPuddle(st.player, st) THEN {SMOOTH_MS} ELSE {DT_CLAMP_MS}

InitEnd == \E g \in {PuddleCity, LateCity, WalkCity} : Mounted(g, 0)

NextEnd ==
    \E gap \in EndGaps(s), in \in EndInputs(s) : Frame(gap, in, EndProfile(s))

SpecEnd == InitEnd /\ [][NextEnd]_vars /\ WF_frames(FrameDue(EndFrames))

(* C29: the round eventually is over, by TIMEOUT or by HEALTH; while it is  *)
(* on, the timer is above 0; every tick that brings no bonus takes its      *)
(* delta off the timer; and a round of ticks 0.1 s apart in which nothing   *)
(* has been delivered and no CLOCK picked up is over once its ticks add up  *)
(* to 150 s.                                                                *)
C29_RoundEnds ==
    /\ <>(s.isGameOver /\ gameOverReason \in {"TIMEOUT", "HEALTH"})
    /\ [](~s.isGameOver => (s.timer > 0 /\ s.timer <= INITIAL_TIME * MS))
    /\ [][ (Ticked /\ s'.timer < s.timer) => s'.timer = s.timer - MostDt ]_vars
    /\ []((s.deliveries = 0 /\ now = frames * DT_CLAMP_MS
           /\ now >= INITIAL_TIME * MS) => s.isGameOver)

\* a round with one delivery and two CLOCK pickups has timed out; it took
\* more than 150 s
C29_Witness ==
    /\ s.isGameOver /\ gameOverReason = "TIMEOUT"
    /\ s.deliveries = 1
    /\ frames * DT_CLAMP_MS >= (INITIAL_TIME + 2 * CLOCK_BONUS_S) * MS

---------------------------------------------------------------------------
(* SpecAxis: the two-axis move on its own.  A round is mounted in the       *)
(* delivery city; the move of one tick is computed once, for the player on  *)
(* any walkable spot around the lower right corner of the first crossing,   *)
(* at walking or boost speed, under every input.                            *)

AXIS_X == 104                \* the window of spots, in px: its corner
AXIS_Y == 808
AXIS_W == 10                 \* and its width and height
AXIS_H == 14

AxisSpots(st) ==
    { pos \in { Vec(Px(x), Px(y)) : x \in AXIS_X .. (AXIS_X + AXIS_W),
                                   y \in AXIS_Y .. (AXIS_Y + AXIS_H) } :
        isWalkable(pos, st.player.size, st.map) }

\* input components: -1, 0, 9/16 and 1
AxisUnits == {-InputOne, 0, 9, InputOne}

AxisInputs == { Input(x, y, FALSE) : x \in AxisUnits, y \in AxisUnits }

InitAxis == Mounted(WalkCity, 0)

\* the move of update, for the player on spot pos with input in
CallMoveStep ==
    /\ probe = NoProbe
    /\ \E pos \in AxisSpots(s), in \in AxisInputs, speed \in {Px(PLAYER_SPEED), Px(BOOST_SPEED)} :
          probe' = [ fn |-> "MoveStep",
                     args |-> <<pos, (in.x * speed) \div InputOne,
                                (in.y * speed) \div InputOne>>,
                     out |-> <<MoveStep([s.player EXCEPT !.pos = pos], in, speed, s).pos>> ]
    /\ UNCHANGED <<s, gameOverReason, gameOverSent, prevDash, isPaused, now, lastTime,
                   rafPending, hung, snapshot, gameOverCalls, frames, v1>>

NextAxis == CallMoveStep

SpecAxis == InitAxis /\ [][NextAxis]_vars

\* checkMove for the round's player at (x, y)
Free(x, y) == checkMove(Vec(x, y), s.player, s)

\* from `from` with desired displacement (dx, dy) the move ended at `to`:
\* x moved exactly if the x move from the old y was legal, and y moved
\* exactly if the y move from the resulting x was legal
PerAxis(from, dx, dy, to) ==
    /\ to.x = IF Free(from.x + dx, from.y) THEN from.x + dx ELSE from.x
    /\ to.y = IF Free(to.x, from.y + dy) THEN from.y + dy ELSE from.y

(* C30: the move is resolved per axis: the horizontal displacement is       *)
(* committed exactly if it is legal from the old position, then the         *)
(* vertical displacement is committed exactly if it is legal from the       *)
(* resulting x; an axis whose move is rejected keeps its coordinate.        *)
C30_PerAxis ==
    probe.fn = "MoveStep" =>
        PerAxis(probe.args[1], probe.args[2], probe.args[3], probe.out[1])

\* a diagonal move whose x part was rejected and whose y part was committed,
\* though the diagonal target itself is not legal
C30_Witness ==
    /\ probe.fn = "MoveStep"
    /\ probe.args[2] # 0 /\ probe.args[3] # 0
    /\ probe.out[1].x = probe.args[1].x
    /\ probe.out[1].y = probe.args[1].y + probe.args[3]
    /\ ~Free(probe.args[1].x + probe.args[2], probe.args[1].y + probe.args[3])

---------------------------------------------------------------------------
(* SpecMove: the Movement Resolver under every input.  The city has its     *)
(* houses in the lower block; a COFFEE may spawn on the start tile, so that *)
(* the player can charge and boost.                                         *)

MoveFrames == 3

MoveProfile ==
    [ spawnCar |-> {FALSE}, spawnPup |-> BOOLEAN, pupKinds |-> {0},
      pupTiles |-> {StartTile}, maxPups |-> 1, maxFrames |-> MoveFrames ]

\* input components: -1, 0, 9/16 and 1
MoveAxis == {-InputOne, 0, 9, InputOne}

MoveInputs == { Input(x, y, d) : x \in MoveAxis, y \in MoveAxis, d \in BOOLEAN }

InitMove == Mounted(City(1, {}, 2, << >>, {}), 0)

NextMove == \E in \in MoveInputs : Frame(DT_CLAMP_MS, in, MoveProfile)

SpecMove == InitMove /\ [][NextMove]_vars

\* C2: after any ticks, whatever the inputs and the boost state, the four
\* corners of the player's box are on ROAD tiles inside the map
C2_Walkable ==
    s.isPlaying => isWalkable(s.player.pos, s.player.size, s.map)

\* a boosting player pressed against the left edge of the road: one more
\* boosted step to the left would leave the ROAD tiles
C2_Witness ==
    /\ s.player.isBoosting
    /\ s.player.pos # StartPos(s.map)
    /\ ~isWalkable(Vec(s.player.pos.x - Px(BOOST_SPEED), s.player.pos.y),
                   s.player.size, s.map)

---------------------------------------------------------------------------
(* SpecDelivery: the player walks from the start to the doors of the lower *)
(* block, in a city of four houses, of one house and of none, fresh or      *)
(* after six idle seconds; beside it, the earlier variant's bookkeeping.    *)

Targets(st) == { i \in 1 .. Len(st.houses) : st.houses[i].isTarget }

DeliveryFrames == 30
IDLE_BEFORE_WALK == 6000     \* ms idled before the walk, past the 5 s bonus window

DeliveryProfile ==
    [ spawnCar |-> {FALSE}, spawnPup |-> {FALSE}, pupKinds |-> {0},
      pupTiles |-> {}, maxPups |-> 0, maxFrames |-> DeliveryFrames ]

\* up-right, and right
DeliveryInputs == { Input(InputOne, -InputOne, FALSE), Input(InputOne, 0, FALSE) }

\* the lot of the third house, the one nearest to the start
NearLot == <<4, MAP_HEIGHT - 7>>

InitDelivery ==
    \/ \E idle \in {0, IDLE_BEFORE_WALK} : Mounted(City(1, {}, 2, << >>, {1}), idle)
    \/ Mounted(City(1, AllTiles \ {NearLot}, 0, << >>, {}), 0)
    \/ Mounted(City(1, AllTiles, 0, << >>, {}), 0)
    \/ MountedV1

NextDelivery ==
    \/ \E in \in DeliveryInputs : Frame(DT_CLAMP_MS, in, DeliveryProfile)
    \/ \E near \in BOOLEAN, fast \in BOOLEAN : FrameV1(DT_CLAMP_MS, near, fast)

SpecDelivery == InitDelivery /\ [][NextDelivery]_vars

\* C1: in every state of a round that is playing, right after initGame and
\* after every tick that returned, exactly one house is the target
C1_OneTarget ==
    (s.isPlaying /\ ~s.isGameOver /\ ~hung) => Cardinality(Targets(s)) = 1

\* a tick of the current variant, and of the earlier one, that delivered
Delivered == s'.deliveries = s.deliveries + 1
DeliveredV1 == v1'.deliveries = v1.deliveries + 1

\* C6, as stated: every delivery adds exactly 1 to the score in both variants,
\* and nothing else changes the score
C6_PlusOneInBoth ==
    [][ /\ s'.score = s.score + (IF Delivered THEN 1 ELSE 0)
        /\ v1'.score = v1.score + (IF DeliveredV1 THEN 1 ELSE 0) ]_vars

\* C6, amended: a delivery adds exactly 1 in the current variant; in the
\* earlier variant it adds 1 while at most five deliveries came before and 2
\* from the seventh on (combo > 5); nothing else changes the score, which
\* therefore never decreases
C6_ScorePerDelivery ==
    [][ /\ s'.score = s.score + (IF Delivered THEN 1 ELSE 0)
        /\ v1'.score = v1.score + (IF ~DeliveredV1 THEN 0
                                   ELSE IF v1.deliveries > 5 THEN 2 ELSE 1)
        /\ s'.score >= s.score
        /\ v1'.score >= v1.score ]_vars

\* the earlier variant after its seventh delivery, the first worth 2
C6_Witness == v1.deliveries = 7 /\ v1.score = 8

\* C7: a delivery in a city of at least two houses leaves the delivered house
\* unmarked and marks a different house
C7_NewTarget ==
    [][ (Delivered /\ Len(s.houses) >= 2) =>
           /\ \A t \in Targets(s) : ~s'.houses[t].isTarget
           /\ Targets(s') # {}
           /\ Targets(s') \cap Targets(s) = {} ]_vars

\* the four-house city after the delivery to its third house
C7_Witness ==
    /\ s.deliveries = 1
    /\ Len(s.houses) >= 2
    /\ Targets(s) # {}
    /\ 3 \notin Targets(s)

\* C8: a delivery sets the timer to min(timer + bonus, INITIAL_TIME) with
\* bonus 2 or 4, timer being the value the tick's countdown left; the result
\* is no lower than that value and no higher than INITIAL_TIME
C8_TimerBonus ==
    [][ Delivered =>
           LET before == s.timer - Min(now' - lastTime, DT_CLAMP_MS)
           IN  /\ \E bonus \in {2, 4} :
                     s'.timer = Min(before + bonus * MS, INITIAL_TIME * MS)
               /\ s'.timer >= before
               /\ s'.timer <= INITIAL_TIME * MS ]_vars

\* a first delivery after the idle seconds: bonus 2, below the cap
C8_Witness ==
    /\ s.deliveries = 1
    /\ s.timer = INITIAL_TIME * MS - now + 2 * MS

(* C24: update returns in every tick, whatever the number of houses: no     *)
(* state is reached in which a tick is stuck in the search for the next     *)
(* target house.                                                            *)
C24_UpdateReturns == ~hung

---------------------------------------------------------------------------
(* SpecBonus: the first delivery of rounds that start at different readings *)
(* of performance.now().  The round of the delivery city is generated when  *)
(* the clock reads 0 or 3 s; the player walks to the target's door at once  *)
(* or after six idle seconds.                                               *)

BONUS_T0 == 3000             \* performance.now() (ms) at the later initGame

\* GameLoop mounted on the draws g when the clock reads t0, then idle
MountedAt(g, t0, idle) ==
    /\ DrawsOk(g)
    /\ \E st \in { initGame(g, t0) } :
         /\ idle > 0 => IdleOk(st)
         /\ s = Idle(st, idle)
         /\ snapshot = IF idle > 0 THEN <<Snapshot(Idle(st, idle))>> ELSE << >>
    /\ gameOverReason = ""
    /\ gameOverSent = FALSE
    /\ prevDash = FALSE
    /\ isPaused = FALSE
    /\ now = t0 + idle
    /\ lastTime = t0 + idle
    /\ rafPending = TRUE
    /\ hung = FALSE
    /\ gameOverCalls = << >>
    /\ frames = 0
    /\ v1 = NoV1
    /\ probe = NoProbe

InitBonus ==
    \E t0 \in {0, BONUS_T0}, idle \in {0, IDLE_BEFORE_WALK} : MountedAt(WalkCity, t0, idle)

NextBonus == \E in \in DeliveryInputs : Frame(DT_CLAMP_MS, in, DeliveryProfile)

SpecBonus == InitBonus /\ [][NextBonus]_vars

\* the time the round has run before this tick's delivery, for a round that
\* has had no bonus yet: what the countdown has taken off the timer
RoundAge == INITIAL_TIME * MS - (s.timer - MostDt)

\* the time since the previous delivery, or since the round's start
SinceLast == IF s.deliveries = 0 THEN RoundAge ELSE now' - s.lastDeliveryTime

(* C31: a delivery adds 4 s to the timer (up to INITIAL_TIME) when less     *)
(* than 5 s have passed since the previous delivery, or since the start of  *)
(* the round for the first delivery, and 2 s otherwise.                     *)
C31_BonusByPace ==
    [][ Delivered =>
          s'.timer = Min(s.timer - MostDt
                           + (IF SinceLast < BONUS_WINDOW_S * MS THEN 4 ELSE 2) * MS,
                         INITIAL_TIME * MS) ]_vars

---------------------------------------------------------------------------
(* SpecHold: a pause between two deliveries.  In the walk city the player   *)
(* goes up and right to the door of the first target and on to the next     *)
(* one; every tick is 0.1 s long.  After the first delivery the game may be *)
(* paused once; the one callback that arrives during the pause comes 6 s    *)
(* after the callback before it.                                            *)

HoldFrames == 56             \* loop callbacks followed
HOLD_MS == 6000              \* length of the pause, past the 5 s bonus window

HoldProfile ==
    [ spawnCar |-> {FALSE}, spawnPup |-> {FALSE}, pupKinds |-> {0},
      pupTiles |-> {}, maxPups |-> 0, maxFrames |-> HoldFrames ]

\* no callback has arrived during a pause yet
NotHeld == now = frames * DT_CLAMP_MS

InitHold == Mounted(WalkCity, 0)

\* up and right to the first door, then right along the road
HoldInputs(st) ==
    IF st.deliveries = 0 THEN { Input(InputOne, -InputOne, FALSE) }
    ELSE { Input(InputOne, 0, FALSE) }

NextHold ==
    \/ ~isPaused /\ \E in \in HoldInputs(s) : Frame(DT_CLAMP_MS, in, HoldProfile)
    \/ isPaused /\ NotHeld /\ Frame(HOLD_MS, Input(0, 0, FALSE), HoldProfile)
    \/ (isPaused \/ (s.deliveries = 1 /\ NotHeld)) /\ TogglePause

SpecHold == InitHold /\ [][NextHold]_vars

\* the wall-clock time that went by while the game was paused
HeldMs == IF NotHeld THEN 0 ELSE HOLD_MS

(* C32: time spent paused does not change what later ticks do: the second   *)
(* delivery gets the time bonus that the same ticks get without the pause,  *)
(* the bonus for the time since the first delivery less the time paused.    *)
C32_PauseNeutral ==
    [][ (Delivered /\ s.deliveries = 1) =>
          s'.timer = Min(s.timer - MostDt
                           + DeliveryBonus(now' - s.lastDeliveryTime - HeldMs) * MS,
                         INITIAL_TIME * MS) ]_vars

---------------------------------------------------------------------------
(* SpecBoost: charging and boosting.  In the traffic city, with its car     *)
(* left parked, COFFEE may spawn on the start tile in any tick.  The player *)
(* stands with the action key up or down, or, while not boosting, steps     *)
(* right towards the puddle on the next tile or back left.                  *)

BoostFrames == 12            \* loop callbacks followed

BoostProfile ==
    [ spawnCar |-> {FALSE}, spawnPup |-> BOOLEAN, pupKinds |-> {0},
      pupTiles |-> {StartTile}, maxPups |-> 1, maxFrames |-> BoostFrames ]

BoostInputs(st) ==
    { Input(0, 0, d) : d \in BOOLEAN }
    \cup (IF ~st.player.isBoosting /\ st.player.pos.x < Px(PUDDLE_X)
          THEN { Input(InputOne, 0, FALSE) } ELSE {})
    \cup (IF ~st.player.isBoosting /\ st.player.pos.x > StartPos(st.map).x
          THEN { Input(-InputOne, 0, d) : d \in BOOLEAN } ELSE {})

InitBoost == Mounted(TrafficCity, 0)

NextBoost == \E in \in BoostInputs(s) : Frame(DT_CLAMP_MS, in, BoostProfile)

SpecBoost == InitBoost /\ [][NextBoost]_vars

\* this tick started a boost
Activated == Ticked /\ ~s.player.isBoosting /\ s'.player.isBoosting

\* the power-up that lay on the map before this tick was picked up in it
\* (a power-up lives 10 s, longer than the run), and none was picked up
Picked == Ticked /\ s.powerups # << >> /\ s'.powerups = << >>
NotPicked == Ticked /\ s'.powerups # << >>

(* C33: in every state 0 <= boostCharge <= MAX_BOOST_CHARGE, and a charge   *)
(* of 1 or more implies boostUnlocked; boostUnlocked never goes back to     *)
(* false; and a tick that starts a boost had a charge, takes exactly one    *)
(* charge (a COFFEE picked up later in the same tick gives one back) and    *)
(* leaves the player boosting with the 0.5 s of the boost less this tick's  *)
(* deltaTime.                                                               *)
C33_BoostCharge ==
    /\ [](/\ 0 <= s.player.boostCharge
          /\ s.player.boostCharge <= MAX_BOOST_CHARGE
          /\ s.player.boostCharge >= 1 => s.player.boostUnlocked)
    /\ [][ /\ s.player.boostUnlocked => s'.player.boostUnlocked
           /\ Activated =>
                 /\ s.player.boostCharge >= 1
                 /\ s'.player.boostTimer = BOOST_TIME_MS - MostDt
                 /\ s'.player.boostCharge \in
                        { s.player.boostCharge - 1, s.player.boostCharge }
                 /\ NotPicked => s'.player.boostCharge = s.player.boostCharge - 1
                 /\ Picked => s'.player.boostCharge = s.player.boostCharge ]_vars

\* a boost just started from a full charge, with a COFFEE lying out of reach
C33_Witness ==
    /\ s.player.isBoosting
    /\ s.player.boostTimer = BOOST_TIME_MS - DT_CLAMP_MS
    /\ s.player.boostCharge = MAX_BOOST_CHARGE - 1
    /\ s.powerups # << >>

(* C34: a charge is spent, and a boost started, only by a tick that finds   *)
(* the action key down after the previous tick found it up, with a charge   *)
(* of 1 or more and no boost running; so a key held down spends nothing     *)
(* more, and a press during a boost spends nothing.                         *)
C34_RisingEdge ==
    [][ /\ (Activated \/ s'.player.boostCharge < s.player.boostCharge) =>
              /\ ~prevDash /\ prevDash'
              /\ s.player.boostCharge >= 1
              /\ ~s.player.isBoosting
              /\ Activated
              /\ s'.player.boostCharge >= s.player.boostCharge - 1
        /\ (Ticked /\ prevDash /\ prevDash') =>
              s'.player.boostCharge >= s.player.boostCharge
        /\ (Ticked /\ s.player.isBoosting) =>
              s'.player.boostCharge >= s.player.boostCharge ]_vars

\* the last tenth of a boost with the key down and a charge left
C34_Witness ==
    /\ prevDash
    /\ s.player.isBoosting
    /\ s.player.boostTimer = DT_CLAMP_MS
    /\ s.player.boostCharge >= 1

(* C35: the tick that picks up a COFFEE leaves boostUnlocked true, the      *)
(* charge one higher (after a boost started in the same tick has taken its  *)
(* charge) up to MAX_BOOST_CHARGE and the health one higher (after a hit of *)
(* the same tick) up to maxHealth; the timer has lost only this tick's      *)
(* deltaTime, and the traffic pause and the cars are as they were.          *)
C35_Coffee ==
    [][ Picked =>
          /\ s'.player.boostUnlocked
          /\ s'.player.boostCharge =
                Min(s.player.boostCharge - (IF Activated THEN 1 ELSE 0) + 1,
                    MAX_BOOST_CHARGE)
          /\ s'.player.health =
                Min(s.player.health - (IF Hit THEN 1 ELSE 0) + 1, s.player.maxHealth)
          /\ s'.timer = s.timer - MostDt
          /\ s'.trafficPauseTimer = s.trafficPauseTimer
          /\ s'.cars = s.cars ]_vars

\* a player healed by a COFFEE while still invulnerable from the puddle
C35_Witness ==
    /\ s.player.health = s.player.maxHealth
    /\ s.player.invulnerabilityTimer > 0
    /\ s.player.boostUnlocked
    /\ s.powerups = << >>

---------------------------------------------------------------------------
(* The cars of a freshly generated round *)

\* car k stands where initGame parks the car of house i
CarOf(st, k, i) ==
    st.cars[k].homePos = Vec(st.houses[i].drivewayPos.x + Px(6),
                             st.houses[i].drivewayPos.y + Px(6))

\* the tile under the top left corner of a car parked at pos
TileUnder(pos) == <<pos.x \div TILE, pos.y \div TILE>>

(* C36: right after generation every car belongs to one house and no two    *)
(* cars to the same house; it is PARKED with frozenTimer 0 at its homePos   *)
(* on a DRIVEWAY tile, and it points from the driveway to the road its      *)
(* house faces: up for a house facing up, down for a house facing down.     *)
C36_CarsPointOut ==
    (s.isPlaying /\ frames = 0) =>
        /\ \A k \in 1 .. Len(s.cars) :
              /\ s.cars[k].state = "PARKED"
              /\ s.cars[k].frozenTimer = 0
              /\ s.cars[k].pos = s.cars[k].homePos
              /\ s.map[TileUnder(s.cars[k].pos)[2]][TileUnder(s.cars[k].pos)[1]] = "DRIVEWAY"
              /\ \E i \in 1 .. Len(s.houses) :
                    CarOf(s, k, i) /\ s.cars[k].direction = s.houses[i].facing
        /\ \A k, l \in 1 .. Len(s.cars) :
              k # l => s.cars[k].homePos # s.cars[l].homePos

---------------------------------------------------------------------------
(* SpecPuddles: the random puddles of a round.  Two puddles, small or large, *)
(* are drawn on the start tile, the tile to its right or the first crossing, *)
(* or come from a search that missed 1000 times; the round then runs a few  *)
(* ticks with the player standing or stepping right.                        *)

PuddlesFrames == 3           \* loop callbacks followed
CrossTile == <<2, 2>>        \* the tile of the fallback position (64, 64)

PuddleChoices ==
    { Puddle(t, d[1], d[2]) : t \in {StartTile, RightTile, CrossTile, FallbackDraw},
                              d \in {<<15, 12>>, <<27, 21>>} }

PuddlesProfile ==
    [ spawnCar |-> {FALSE}, spawnPup |-> {FALSE}, pupKinds |-> {0},
      pupTiles |-> {}, maxPups |-> 0, maxFrames |-> PuddlesFrames ]

InitPuddles ==
    \E a \in PuddleChoices, b \in PuddleChoices :
        Mounted(City(1, {}, 0, <<a, b>>, {}), 0)

NextPuddles == \E in \in StallInputs : Frame(DT_CLAMP_MS, in, PuddlesProfile)

SpecPuddles == InitPuddles /\ [][NextPuddles]_vars

\* the indices of the random puddles of a round: those after the park pond
Rained(st) ==
    (Len(Ponds(ParkBlock(st.vRoads, st.hRoads))) + 1) .. Len(st.puddles)

(* C37: after generation the box of every random puddle has its corners on  *)
(* ROAD tiles (it is narrower than a tile, so it lies on ROAD tiles), and   *)
(* no two of these boxes overlap, whether the positions were found by the   *)
(* search or are the fallback (64, 64).                                     *)
C37_PuddlesApart ==
    (s.isPlaying /\ frames = 0) =>
        \A i \in Rained(s) :
            /\ isWalkable(s.puddles[i].pos, s.puddles[i].size, s.map)
            /\ \A j \in Rained(s) :
                  i # j => ~checkCollision(s.puddles[i], s.puddles[j])

---------------------------------------------------------------------------
(* SpecLots: the houses of the generated city.  The middle road lies at     *)
(* either of its two places; the placement roll may fail at any of the      *)
(* first lot origins of the two house rows of the lower block, which shifts *)
(* the lots to the right; all houses are L-shaped or all are rectangles.    *)
(* The round then runs a few ticks.                                         *)

LotsFrames == 3              \* loop callbacks followed

\* lot origins whose placement roll may fail
SkipPool(hGap) ==
    { <<x, y>> : x \in {4, 5, 8}, y \in {14 + hGap, MAP_HEIGHT - 7} }

LotsProfile ==
    [ spawnCar |-> {FALSE}, spawnPup |-> {FALSE}, pupKinds |-> {0},
      pupTiles |-> {}, maxPups |-> 0, maxFrames |-> LotsFrames ]

InitLots ==
    \E hGap \in {0, 1} : \E skip \in SUBSET SkipPool(hGap), rect \in {{}, AllTiles} :
        Mounted([City(hGap, skip, 0, << >>, {}) EXCEPT !.rect = rect], 0)

NextLots == \E in \in StallInputs : Frame(DT_CLAMP_MS, in, LotsProfile)

SpecLots == InitLots /\ [][NextLots]_vars

\* the tiles under the box at pos of the given size (both whole tiles)
TilesOf(pos, size) ==
    { <<x, y>> \in AllTiles :
        /\ x * TILE >= pos.x /\ x * TILE < pos.x + size.x
        /\ y * TILE >= pos.y /\ y * TILE < pos.y + size.y }

LotOf(h) == TilesOf(h.gardenPos, h.gardenSize)
StructureOf(h) == TilesOf(h.pos, h.size)

\* the row of the lot that lies on the road its house faces
FrontRow(h) ==
    IF h.facing = "up" THEN h.gardenPos.y \div TILE
    ELSE (h.gardenPos.y + h.gardenSize.y) \div TILE - 1

(* C38: in the generated city no two houses' lots share a tile, and every   *)
(* structure lies in its own lot; no tile of a lot is a tile of a road band *)
(* or of the park block, and the road bands are ROAD on the map; and every  *)
(* house has a column of DRIVEWAY tiles, the one of its drivewayPos, that   *)
(* runs through its own lot from the front row to the back.                 *)
C38_Lots ==
    s.isPlaying =>
        /\ \A i, j \in 1 .. Len(s.houses) :
              i # j => LotOf(s.houses[i]) \cap LotOf(s.houses[j]) = {}
        /\ \A i \in 1 .. Len(s.houses) :
              /\ Cardinality(LotOf(s.houses[i])) = W_TILES * H_TILES
              /\ StructureOf(s.houses[i]) # {}
              /\ StructureOf(s.houses[i]) \subseteq LotOf(s.houses[i])
              /\ \A t \in LotOf(s.houses[i]) :
                    /\ RasterizeRoads(s.vRoads, s.hRoads)[t[2]][t[1]] # "ROAD"
                    /\ s.map[t[2]][t[1]] # "ROAD"
                    /\ ~InBlock(ParkBlock(s.vRoads, s.hRoads), t[1], t[2], 0)
              /\ \E c \in Cols :
                    /\ c = s.houses[i].drivewayPos.x \div TILE
                    /\ <<c, FrontRow(s.houses[i])>> \in LotOf(s.houses[i])
                    /\ \A t \in LotOf(s.houses[i]) :
                          t[1] = c => s.map[t[2]][t[1]] = "DRIVEWAY"
        /\ \A t \in AllTiles :
              RasterizeRoads(s.vRoads, s.hRoads)[t[2]][t[1]] = "ROAD"
                  => s.map[t[2]][t[1]] = "ROAD"

\* a city whose first roll failed: a lot shifted one tile to the right, its
\* full-width structure facing up, and houses in both rows
C38_Witness ==
    /\ s.isPlaying
    /\ Len(s.houses) >= 2
    /\ \E i \in 1 .. Len(s.houses) :
          /\ s.houses[i].gardenPos.x = 5 * TILE
          /\ s.houses[i].facing = "up"
          /\ Cardinality(StructureOf(s.houses[i])) = W_TILES * (H_TILES - 1)
    /\ \E i \in 1 .. Len(s.houses) : s.houses[i].facing = "down"

---------------------------------------------------------------------------
(* SpecTrees: a city full of trees.  Every tree roll of the generation      *)
(* passes, so that a tree stands on every garden, footpath and park tile;   *)
(* the player walks from the start in any direction for a few ticks.        *)

TreesFrames == 4             \* loop callbacks followed
TREE_NEAR_PX == 64           \* trees this close to the player are looked at

TreesProfile ==
    [ spawnCar |-> {FALSE}, spawnPup |-> {FALSE}, pupKinds |-> {0},
      pupTiles |-> {}, maxPups |-> 0, maxFrames |-> TreesFrames ]

InitTrees == Mounted([WalkCity EXCEPT !.trees = AllTiles], 0)

NextTrees == \E in \in StartInputs : Frame(DT_CLAMP_MS, in, TreesProfile)

SpecTrees == InitTrees /\ [][NextTrees]_vars

\* the trees within two tiles of the player
NearTrees(st) ==
    { tree \in st.staticObjects :
        /\ Abs(tree.pos.x - st.player.pos.x) <= Px(TREE_NEAR_PX)
        /\ Abs(tree.pos.y - st.player.pos.y) <= Px(TREE_NEAR_PX) }

\* the displacements of one tick, pixel by pixel up to the boost speed
TreeSteps == { Px(d) : d \in (-BOOST_SPEED) .. BOOST_SPEED }

\* a box of the given size whose corners are on ROAD tiles, anywhere within
\* one tick's move of the player, overlaps none of the trees
ClearOf(trees, size) ==
    \A dx \in TreeSteps, dy \in TreeSteps :
        isWalkable(Vec(s.player.pos.x + dx, s.player.pos.y + dy), size, s.map) =>
            \A tree \in trees :
                ~checkCollision([pos |-> Vec(s.player.pos.x + dx, s.player.pos.y + dy),
                                 size |-> size], tree)

(* C39: no tree overlaps a box whose four corners are on ROAD tiles, for    *)
(* the player's box and for a box as large as a tile, at every place one    *)
(* tick's move can take the player to: whenever the walkability test        *)
(* passes, the check against the static objects passes too.                 *)
C39_TreesClear ==
    s.isPlaying =>
        /\ ClearOf(NearTrees(s), s.player.size)
        /\ ClearOf(NearTrees(s), Vec(TILE, TILE))

\* the player stands at the left edge of the road, one step from leaving it,
\* beside the tree on the footpath tile
C39_Witness ==
    /\ s.isPlaying
    /\ ~isWalkable(Vec(s.player.pos.x - Px(PLAYER_SPEED), s.player.pos.y),
                   s.player.size, s.map)
    /\ \E tree \in s.staticObjects :
          /\ tree.pos.x + tree.size.x < s.player.pos.x
          /\ s.player.pos.x - (tree.pos.x + tree.size.x) <= Px(BOOST_SPEED)
          /\ tree.pos.y < s.player.pos.y + s.player.size.y
          /\ tree.pos.y + tree.size.y > s.player.pos.y


====
